---- MODULE Spec2Model ----
(***************************************************************************)
(* A model of todo-tree: the ScanResult/Summary aggregate (core/types.rs), *)
(* the priority classifier and tag catalogs (core/priority.rs,             *)
(* core/tags.rs, extensions/zed/types.rs), the directory scanner           *)
(* (cli/scanner.rs) and the line parser (cli/parser.rs).                   *)
(*                                                                         *)
(* Strings are sequences of characters, each an ASCII character written as *)
(* a one-character string or a non-ASCII character written by its name, so *)
(* that letter case, matching and comparison are computed, not assumed.    *)
(***************************************************************************)
EXTENDS Integers, Sequences, FiniteSets, TLC

(***************************************************************************)
(* Bounds of the model.                                                    *)
(***************************************************************************)
\* add_file / unreadable-file steps taken on one ScanResult
MaxAdds == 2
\* items in one file's item list
MaxItems == 2
\* directory entries yielded by one walk
MaxEntries == 3
\* largest value of ScanOptions.threads tried
MaxThreads == 2
\* pieces a line handed to parse_line is put together from
MaxPieces == 3
\* pieces of a line parsed by a parser built from a custom template
MaxTemplatePieces == 2

(***************************************************************************)
(* Characters and letter case.                                             *)
(***************************************************************************)
Lowers == <<"a","b","c","d","e","f","g","h","i","j","k","l","m",
            "n","o","p","q","r","s","t","u","v","w","x","y","z">>
Uppers == <<"A","B","C","D","E","F","G","H","I","J","K","L","M",
            "N","O","P","Q","R","S","T","U","V","W","X","Y","Z">>

IsAsciiLower(c) == \E i \in 1..Len(Lowers) : Lowers[i] = c
IsAsciiUpper(c) == \E i \in 1..Len(Uppers) : Uppers[i] = c

\* u8::to_ascii_lowercase / to_ascii_uppercase: only A-Z / a-z change
to_ascii_lowercase(c) ==
    IF IsAsciiUpper(c)
    THEN Lowers[CHOOSE i \in 1..Len(Uppers) : Uppers[i] = c]
    ELSE c
to_ascii_uppercase(c) ==
    IF IsAsciiLower(c)
    THEN Uppers[CHOOSE i \in 1..Len(Lowers) : Lowers[i] = c]
    ELSE c

\* char::to_uppercase (Unicode): a sequence, since some characters have an
\* upper case of several characters; the non-ASCII characters the model carries
\* are written by name: the accented e (U+00E9, U+00C9), the sharp s (U+00DF)
\* and the fi ligature (U+FB01)
char_to_uppercase(c) ==
    IF c = "e-acute" THEN <<"E-acute">>
    ELSE IF c = "sharp-s" THEN <<"S", "S">>
    ELSE IF c = "fi-ligature" THEN <<"F", "I">>
    ELSE IF c = "long-s" THEN <<"S">>
    ELSE <<to_ascii_uppercase(c)>>

\* str::to_uppercase
RECURSIVE to_uppercase(_)
to_uppercase(s) ==
    IF s = << >> THEN << >>
    ELSE char_to_uppercase(Head(s)) \o to_uppercase(Tail(s))

\* str::eq_ignore_ascii_case
eq_ignore_ascii_case(a, b) ==
    /\ Len(a) = Len(b)
    /\ \A i \in 1..Len(a) : to_ascii_lowercase(a[i]) = to_ascii_lowercase(b[i])

(***************************************************************************)
(* Tag spellings used as inputs.                                           *)
(***************************************************************************)
S_TODO  == <<"T","O","D","O">>
S_todo  == <<"t","o","d","o">>
S_FIXME == <<"F","I","X","M","E">>
S_BUG   == <<"B","U","G">>
S_ERROR == <<"E","R","R","O","R">>
S_HACK  == <<"H","A","C","K">>
S_WARN  == <<"W","A","R","N">>
S_WARNING == <<"W","A","R","N","I","N","G">>
S_FIX   == <<"F","I","X">>
S_WIP   == <<"W","I","P">>
S_MAYBE == <<"M","A","Y","B","E">>
S_NOTE  == <<"N","O","T","E">>
S_XXX   == <<"X","X","X">>
S_INFO  == <<"I","N","F","O">>
S_DOCS  == <<"D","O","C","S">>
S_PERF  == <<"P","E","R","F">>
S_TEST  == <<"T","E","S","T">>
S_test  == <<"t","e","s","t">>
\* "test" written with the long s (U+017F)
S_test_long_s == <<"t","e","long-s","t">>
S_IDEA  == <<"I","D","E","A">>

(***************************************************************************)
(* Priority (core/priority.rs).                                            *)
(***************************************************************************)
Priorities == {"Low", "Medium", "High", "Critical"}

\* the match of from_tag on the tag as written, without upper-casing it
from_tag_as_written(tag) ==
    IF tag \in {S_BUG, S_FIXME, S_ERROR} THEN "Critical"
    ELSE IF tag \in {S_HACK, S_WARN, S_WARNING, S_FIX} THEN "High"
    ELSE IF tag \in {S_NOTE, S_XXX, S_INFO, S_DOCS, S_PERF, S_TEST, S_IDEA} THEN "Low"
    ELSE "Medium"

\* Priority::from_tag
from_tag(tag) ==
    LET u == to_uppercase(tag) IN
    IF u \in {S_BUG, S_FIXME, S_ERROR} THEN "Critical"
    ELSE IF u \in {S_HACK, S_WARN, S_WARNING, S_FIX} THEN "High"
    ELSE IF u \in {S_TODO, S_WIP, S_MAYBE} THEN "Medium"
    ELSE IF u \in {S_NOTE, S_XXX, S_INFO, S_DOCS, S_PERF, S_TEST, S_IDEA} THEN "Low"
    ELSE "Medium"

(***************************************************************************)
(* Paths and items used as inputs.                                         *)
(***************************************************************************)
P_a_dot_b   == <<"a", ".", "b">>
P_a_slash_b == <<"a", "/", "b">>
Paths == {P_a_dot_b, P_a_slash_b}

ROOT == <<"/", "r">>
DOT  == <<".">>

\* Option<T>: None is the empty sequence, Some(x) the one-element sequence
None == << >>
Some(x) == <<x>>
unwrap(o) == o[1]

\* tags carried by the items handed to add_file
ItemTags == {S_todo, S_FIXME}
\* arguments handed to filter_by_tag
FilterTags == {S_TODO, S_todo, S_FIXME}

\* the TodoItem built by the tests' helper create_test_item(tag, message, line)
create_test_item(tag, message, line) ==
    [tag |-> tag, message |-> message, line |-> line, column |-> 1,
     line_content |-> Some(<<"/", "/", " ">> \o tag \o <<":", " ">> \o message),
     author |-> None, priority |-> from_tag(tag)]

MSG == <<"m">>

\* item lists of length n whose k-th item stands on line k
ItemListsOfLen(n) ==
    { [k \in 1..n |-> create_test_item(ts[k], MSG, k)] : ts \in [1..n -> ItemTags] }
ItemLists == UNION { ItemListsOfLen(n) : n \in 0..MaxItems }

(***************************************************************************)
(* Summary and ScanResult (core/types.rs).                                 *)
(***************************************************************************)
\* HashMap::new()
EmptyMap == [x \in {} |-> 0]

\* HashMap::insert: the last write for a key wins
MapInsert(m, k, v) == [x \in (DOMAIN m) \cup {k} |-> IF x = k THEN v ELSE m[x]]

\* *tag_counts.entry(tag).or_insert(0) += 1
BumpTag(tc, tag) ==
    MapInsert(tc, tag, IF tag \in DOMAIN tc THEN tc[tag] + 1 ELSE 1)

\* for item in &items { *self.summary.tag_counts.entry(item.tag.clone()).or_insert(0) += 1; }
RECURSIVE CountTags(_, _)
CountTags(tc, items) ==
    IF items = << >> THEN tc
    ELSE CountTags(BumpTag(tc, Head(items).tag), Tail(items))

\* ScanResult::new
new(root) ==
    [files     |-> None,
     files_map |-> EmptyMap,
     summary   |-> [total_count |-> 0, files_with_todos |-> 0,
                    files_scanned |-> 0, tag_counts |-> EmptyMap],
     root      |-> Some(root)]

\* add_file counting one item per file instead of items.len()
add_file_one_per_file(r, path, items) ==
    LET counted == [r EXCEPT !.summary.files_scanned = @ + 1] IN
    IF items # << >>
    THEN [counted EXCEPT !.summary.files_with_todos = @ + 1,
                         !.summary.total_count = @ + 1,
                         !.summary.tag_counts = CountTags(@, items),
                         !.files_map = MapInsert(@, path, items)]
    ELSE counted

\* add_file storing the list outside the non-empty test
add_file_storing_empty(r, path, items) ==
    LET counted == [r EXCEPT !.summary.files_scanned = @ + 1,
                             !.files_map = MapInsert(@, path, items)] IN
    IF items # << >>
    THEN [counted EXCEPT !.summary.files_with_todos = @ + 1,
                         !.summary.total_count = @ + Len(items),
                         !.summary.tag_counts = CountTags(@, items)]
    ELSE counted

\* add_file assigning items.len() to total_count instead of adding it
add_file_assigning_total(r, path, items) ==
    LET counted == [r EXCEPT !.summary.files_scanned = @ + 1] IN
    IF items # << >>
    THEN [counted EXCEPT !.summary.files_with_todos = @ + 1,
                         !.summary.total_count = Len(items),
                         !.summary.tag_counts = CountTags(@, items),
                         !.files_map = MapInsert(@, path, items)]
    ELSE counted

\* add_file taking the replaced list of a path out of the counts of files and
\* items
add_file_replacing(r, path, items) ==
    LET counted == [r EXCEPT !.summary.files_scanned = @ + 1] IN
    IF items = << >> THEN counted
    ELSE IF path \in DOMAIN r.files_map
    THEN [counted EXCEPT !.summary.total_count = @ + Len(items) - Len(r.files_map[path]),
                         !.summary.tag_counts = CountTags(@, items),
                         !.files_map = MapInsert(@, path, items)]
    ELSE [counted EXCEPT !.summary.files_with_todos = @ + 1,
                         !.summary.total_count = @ + Len(items),
                         !.summary.tag_counts = CountTags(@, items),
                         !.files_map = MapInsert(@, path, items)]

\* ScanResult::add_file
add_file(r, path, items) ==
    LET counted == [r EXCEPT !.summary.files_scanned = @ + 1] IN
    IF items # << >>
    THEN [counted EXCEPT !.summary.files_with_todos = @ + 1,
                         !.summary.total_count = @ + Len(items),
                         !.summary.tag_counts = CountTags(@, items),
                         !.files_map = MapInsert(@, path, items)]
    ELSE counted

\* ScanResult::is_empty
is_empty(r) ==
    IF r.files # None THEN unwrap(r.files) = << >> ELSE DOMAIN r.files_map = {}

\* a filter closure comparing the tags exactly (item.tag == tag)
FilterItemsExact(items, tag) ==
    SelectSeq(items, LAMBDA it : it.tag = tag)

\* the filter closure of filter_by_tag: items whose tag equals `tag`
\* ignoring ASCII case, in their order
FilterItems(items, tag) ==
    SelectSeq(items, LAMBDA it : eq_ignore_ascii_case(it.tag, tag))

\* the loop of filter_by_tag over the entries of files_map (HashMap order:
\* any order; the keys are distinct)
RECURSIVE FilterFold(_, _, _, _)
FilterFold(acc, fm, keys, tag) ==
    IF keys = {} THEN acc
    ELSE LET path == CHOOSE p \in keys : TRUE
             filtered_items == FilterItems(fm[path], tag)
             next == IF filtered_items # << >>
                     THEN add_file(acc, path, filtered_items)
                     ELSE acc
         IN FilterFold(next, fm, keys \ {path}, tag)

\* ScanResult::filter_by_tag
filter_by_tag(r, tag) ==
    LET root   == IF r.root # None THEN unwrap(r.root) ELSE DOT
        result0 == [new(root) EXCEPT !.summary.files_scanned = r.summary.files_scanned]
    IN FilterFold(result0, r.files_map, DOMAIN r.files_map, tag)

\* an Err arm that leaves the file uncounted
count_unreadable_skipping(r) == r

\* the Err arm of the parse in Scanner::scan: result.summary.files_scanned += 1
count_unreadable(r) == [r EXCEPT !.summary.files_scanned = @ + 1]

\* code point of a character, for the characters paths are written with
CodePoint(c) ==
    IF IsAsciiLower(c) THEN 96 + (CHOOSE i \in 1..Len(Lowers) : Lowers[i] = c)
    ELSE IF IsAsciiUpper(c) THEN 64 + (CHOOSE i \in 1..Len(Uppers) : Uppers[i] = c)
    ELSE IF c = "." THEN 46
    ELSE IF c = "/" THEN 47
    ELSE IF c = "replacement-character" THEN 65533
    ELSE 0

\* str::cmp is Less: byte-wise lexicographic order, a proper prefix first
RECURSIVE str_lt(_, _)
str_lt(a, b) ==
    IF b = << >> THEN FALSE
    ELSE IF a = << >> THEN TRUE
    ELSE IF Head(a) # Head(b) THEN CodePoint(Head(a)) < CodePoint(Head(b))
    ELSE str_lt(Tail(a), Tail(b))

\* Path::components: the names between the separators
RECURSIVE components(_)
components(p) ==
    IF p = << >> THEN << >>
    ELSE IF Head(p) = "/" THEN components(Tail(p))
    ELSE LET n == CHOOSE k \in 1..Len(p) :
                      /\ \A x \in 1..k : p[x] # "/"
                      /\ (k = Len(p) \/ p[k + 1] = "/")
         IN <<SubSeq(p, 1, n)>> \o components(SubSeq(p, n + 1, Len(p)))

\* lexicographic order of component lists
RECURSIVE components_lt(_, _)
components_lt(a, b) ==
    IF b = << >> THEN FALSE
    ELSE IF a = << >> THEN TRUE
    ELSE IF Head(a) # Head(b) THEN str_lt(Head(a), Head(b))
    ELSE components_lt(Tail(a), Tail(b))

\* PathBuf::cmp is Less: paths compare component by component
path_lt(a, b) == components_lt(components(a), components(b))

\* Path::display().to_string(): the bytes as text, the ones that are not
\* UTF-8 replaced
display(p) ==
    [i \in 1..Len(p) |-> IF p[i] = "invalid-byte" THEN "replacement-character" ELSE p[i]]

\* FileResult
FileResult(path, items) == [path |-> path, items |-> items]

\* files.sort_by(|a, b| a.0.cmp(b.0)) over pairs with distinct paths
sort_by_path(S) ==
    CHOOSE f \in [1..Cardinality(S) -> S] :
        \A i \in 1..Cardinality(S), j \in 1..Cardinality(S) :
            i < j => path_lt(f[i][1], f[j][1])

\* files.sort_by(|a, b| a.path.cmp(&b.path)) over FileResults with distinct
\* paths
sort_by_path_string(S) ==
    CHOOSE f \in [1..Cardinality(S) -> S] :
        \A i \in 1..Cardinality(S), j \in 1..Cardinality(S) :
            i < j => str_lt(f[i].path, f[j].path)

\* ScanResult::sorted_files: the (path, items) pairs by ascending path
sorted_files(r) ==
    sort_by_path({ <<p, r.files_map[p]>> : p \in DOMAIN r.files_map })

\* ScanResult::to_json_format
to_json_format(r) ==
    [files     |-> Some(sort_by_path_string({ FileResult(display(p), r.files_map[p]) :
                                                p \in DOMAIN r.files_map })),
     files_map |-> EmptyMap,
     summary   |-> r.summary,
     root      |-> None]

\* ScanResult::get_files
get_files(r) ==
    IF r.files # None THEN unwrap(r.files)
    ELSE unwrap(to_json_format(r).files)

(***************************************************************************)
(* serde: the JSON value a ScanResult is written as, and the values read   *)
(* back from it by the core types and by the editor extension's types.     *)
(* A JSON object is a function from its keys.                              *)
(***************************************************************************)
\* #[derive(Serialize)] on Priority: a unit variant is written as its name
variant_name(p) ==
    CASE p = "Low"      -> <<"L", "o", "w">>
      [] p = "Medium"   -> <<"M", "e", "d", "i", "u", "m">>
      [] p = "High"     -> <<"H", "i", "g", "h">>
      [] p = "Critical" -> <<"C", "r", "i", "t", "i", "c", "a", "l">>

\* #[derive(Deserialize)] on Priority: the variant of that name
variant_named(name) == CHOOSE p \in Priorities : variant_name(p) = name

\* #[derive(Serialize)] on TodoItem: line_content and author are skipped
\* when None
ser_item(it) ==
    [k \in {"tag", "message", "line", "column", "priority"}
           \cup (IF it.line_content # None THEN {"line_content"} ELSE {})
           \cup (IF it.author # None THEN {"author"} ELSE {}) |->
        CASE k = "tag"          -> it.tag
          [] k = "message"      -> it.message
          [] k = "line"         -> it.line
          [] k = "column"       -> it.column
          [] k = "priority"     -> variant_name(it.priority)
          [] k = "line_content" -> unwrap(it.line_content)
          [] k = "author"       -> unwrap(it.author)]

\* #[derive(Serialize)] on FileResult
ser_file(f) ==
    [path |-> f.path, items |-> [i \in 1..Len(f.items) |-> ser_item(f.items[i])]]

\* #[derive(Serialize)] on ScanResult: files and root are skipped when None,
\* files_map always
serialize(r) ==
    [k \in {"summary"}
           \cup (IF r.files # None THEN {"files"} ELSE {})
           \cup (IF r.root # None THEN {"root"} ELSE {}) |->
        CASE k = "summary" -> r.summary
          [] k = "files"   -> [i \in 1..Len(unwrap(r.files)) |-> ser_file(unwrap(r.files)[i])]
          [] k = "root"    -> display(unwrap(r.root))]

\* an Option field that is never read
de_option_ignored(j, k) == None

\* an Option field: None when the key is missing
de_option(j, k) == IF k \in DOMAIN j THEN Some(j[k]) ELSE None

\* #[derive(Deserialize)] on the core TodoItem
de_item(j) ==
    [tag |-> j["tag"], message |-> j["message"], line |-> j["line"],
     column |-> j["column"],
     line_content |-> de_option(j, "line_content"),
     author |-> de_option(j, "author"),
     priority |-> variant_named(j["priority"])]

\* #[derive(Deserialize)] on the core FileResult
de_file(j) ==
    FileResult(j["path"], [i \in 1..Len(j["items"]) |-> de_item(j["items"][i])])

\* #[derive(Deserialize)] on the core ScanResult: files_map is skipped and
\* starts empty
deserialize(j) ==
    [files     |-> IF "files" \in DOMAIN j
                   THEN Some([i \in 1..Len(j["files"]) |-> de_file(j["files"][i])])
                   ELSE None,
     files_map |-> EmptyMap,
     summary   |-> j["summary"],
     root      |-> de_option(j, "root")]

\* #[derive(Deserialize)] on the extension's TodoItem: priority is a String,
\* there is no line_content field and the unknown key is ignored
zed_de_item(j) ==
    [tag |-> j["tag"], message |-> j["message"], line |-> j["line"],
     column |-> j["column"], priority |-> j["priority"],
     author |-> de_option(j, "author")]

\* #[derive(Deserialize)] on the extension's FileResult
zed_de_file(j) ==
    FileResult(j["path"], [i \in 1..Len(j["items"]) |-> zed_de_item(j["items"][i])])

\* parse_output of the extension: Err(ParseFailed) without a files key,
\* else Ok(ScanResult { files, summary })
parse_output(j) ==
    IF "files" \notin DOMAIN j THEN [err |-> "ParseFailed"]
    ELSE [ok |-> [files   |-> [i \in 1..Len(j["files"]) |-> zed_de_file(j["files"][i])],
                  summary |-> j["summary"]]]

(***************************************************************************)
(* Summary statistics.  An f64 is either the exact quotient num/den in     *)
(* lowest terms (the counts of the model are small, so no rounding         *)
(* occurs), or one of the two values a division by zero produces.          *)
(***************************************************************************)
RECURSIVE gcd(_, _)
gcd(a, b) == IF b = 0 THEN a ELSE gcd(b, a % b)

\* the f64 num/den, den > 0
F64(num, den) == [num |-> num \div gcd(num, den), den |-> den \div gcd(num, den)]

\* 0.0 / 0.0
NaN == [nan |-> TRUE]

\* x / 0.0 with x > 0.0
Infinity == [inf |-> TRUE]

\* n as f64
as_f64(n) == F64(n, 1)

\* a / b on f64 values that are not negative
f64_div(a, b) ==
    IF a \in {NaN, Infinity} \/ b \in {NaN, Infinity} THEN NaN
    ELSE IF b.num = 0 THEN (IF a.num = 0 THEN NaN ELSE Infinity)
    ELSE F64(a.num * b.den, a.den * b.num)

\* a * b on f64 values that are not negative
f64_mul(a, b) ==
    IF a = NaN \/ b = NaN THEN NaN
    ELSE IF a = Infinity \/ b = Infinity
         THEN (IF a = as_f64(0) \/ b = as_f64(0) THEN NaN ELSE Infinity)
    ELSE F64(a.num * b.num, a.den * b.den)

\* the division of avg_items_per_file without its test
avg_items_per_file_unguarded(s) ==
    f64_div(as_f64(s.total_count), as_f64(s.files_with_todos))

\* Summary::avg_items_per_file, the same in the core and in the extension
avg_items_per_file(s) ==
    IF s.files_with_todos > 0
    THEN f64_div(as_f64(s.total_count), as_f64(s.files_with_todos))
    ELSE as_f64(0)

\* Summary::tag_percentage, the same in the core and in the extension
tag_percentage(s, count) ==
    IF s.total_count > 0
    THEN f64_mul(f64_div(as_f64(count), as_f64(s.total_count)), as_f64(100))
    ELSE as_f64(0)

(***************************************************************************)
(* State.                                                                  *)
(***************************************************************************)
VARIABLES
    result,     \* the ScanResult being built
    steps,      \* number of add_file calls and unreadable-file increments so far
    calls,      \* history: <<path, non-empty?>> of every add_file call so far
    filtered,   \* the value returned by the last filter_by_tag call, or None
    filterArg,  \* the argument of that call, or None
    jsonView,   \* the value returned by to_json_format, or None
    sortedView, \* the value returned by sorted_files, or None
    pc,         \* Scanner::scan: "idle", "overrides", "walk", "done", "failed"
    opts,       \* the ScanOptions of the scanner
    rootExists, \* whether root.canonicalize() succeeds
    walked,     \* entries the walker has yielded so far
    inflight,   \* per walk worker: the entry it is handling and the result
                \* it read, or None
    parsed,     \* parse_file calls made so far
    log,        \* history: <<path, parse outcome>> of every parse_file call
    lastEntry,  \* the entry handled by the last loop iteration, or None
    outcome,    \* what scan returned: "none" (running), "Ok" or "Err"
    tagIn,      \* the tag name handed to the classifier and the catalogs
    stamped,    \* Priority::from_tag(tagIn) once computed, or None
    coreDef,    \* Some(find_tag(tagIn)) once looked up in the core catalog
    zedTable,   \* the priority reference of the editor extension once
                \* formatted: priority -> tag names of its row, or None
    line,       \* the line of text handed to parse_line
    typed,      \* number of pieces the line was put together from
    parser,     \* Some(TodoParser) once built, or None
    parseOut,   \* Some(what parse_line returned) once called, or None
    contentOut, \* Some(what parse_content returned) once called, or None
    construction, \* Some(arguments and outcome of the constructor call), or None
    wire,       \* Some(the JSON value the view was serialized to), or None
    coreBack,   \* Some(the ScanResult the core types read back), or None
    zedBack,    \* Some(what the extension's parse_output returned), or None
    summary,    \* the Summary value the statistics are asked of
    avgOut,     \* Some(what avg_items_per_file returned), or None
    pctOut,     \* Some(count and what tag_percentage(count) returned), or None
    sortBefore, \* Some(the result sort_results was last called on), or None
    sortOrder,  \* Some(the SortOrder of that call), or None
    configFiles,\* the configuration files: name -> Some(content) or None
    lastCmd,    \* Some(the last command line run and how it ended), or None
    status,     \* exit status of the CLI process: None or Some(code)
    stdout,     \* what the CLI process wrote to standard output
    stderr,     \* what the CLI process wrote to standard error
    processed   \* Some(what process_command_output returned), or None

apiVars  == <<steps, calls, filtered, filterArg, jsonView, sortedView>>
scanVars == <<pc, opts, rootExists, walked, inflight, parsed, log, lastEntry, outcome>>
classifyVars == <<tagIn, stamped, coreDef, zedTable>>
parseVars == <<line, typed, parser, parseOut, contentOut, construction>>
jsonVars == <<wire, coreBack, zedBack>>
statVars == <<summary, avgOut, pctOut>>
sortVars == <<sortBefore, sortOrder>>
configVars == <<configFiles, lastCmd>>
processVars == <<status, stdout, stderr, processed>>
cmdVars == <<sortVars, configVars, processVars>>
vars == <<result, steps, calls, filtered, filterArg, jsonView, sortedView,
          pc, opts, rootExists, walked, inflight, parsed, log, lastEntry, outcome,
          tagIn, stamped, coreDef, zedTable,
          line, typed, parser, parseOut, contentOut, construction,
          wire, coreBack, zedBack, summary, avgOut, pctOut,
          sortBefore, sortOrder, configFiles, lastCmd,
          status, stdout, stderr, processed>>

\* what the actions of each specification leave alone
notApi      == <<scanVars, classifyVars, parseVars, jsonVars, statVars, cmdVars>>
notScan     == <<apiVars, classifyVars, parseVars, jsonVars, statVars, cmdVars>>
notClassify == <<result, apiVars, scanVars, parseVars, jsonVars, statVars, cmdVars>>
notParse    == <<result, apiVars, scanVars, classifyVars, jsonVars, statVars, cmdVars>>
notJson     == <<result, apiVars, scanVars, classifyVars, parseVars, statVars, cmdVars>>
notStat     == <<result, apiVars, scanVars, classifyVars, parseVars, jsonVars, cmdVars>>
notCmd      == <<apiVars, scanVars, classifyVars, parseVars, jsonVars, statVars>>

\* ScanOptions::default()
DefaultScanOptions ==
    [include |-> << >>, exclude |-> << >>, max_depth |-> 0, follow_links |-> FALSE,
     hidden |-> FALSE, threads |-> 0, respect_gitignore |-> TRUE]

\* a walk built with build_parallel(): as many workers as threads asks for
WalkWorkersParallel(threads) == IF threads > 0 THEN threads ELSE 2

\* the workers of the walk: `for entry in builder.build()` iterates the
\* sequential walker on the calling thread, whatever was passed to
\* builder.threads(n)
WalkWorkers(threads) == 1

\* no scan is running
ScanIdle ==
    /\ pc = "idle"
    /\ opts = DefaultScanOptions
    /\ rootExists = TRUE
    /\ walked = 0
    /\ inflight = [w \in 1..WalkWorkers(opts.threads) |-> None]
    /\ parsed = 0
    /\ log = << >>
    /\ lastEntry = None
    /\ outcome = "none"

\* no ScanResult operation has run
ApiIdle ==
    /\ steps = 0
    /\ calls = {}
    /\ filtered = None
    /\ filterArg = None
    /\ jsonView = None
    /\ sortedView = None

\* nothing has been classified
ClassifyIdle ==
    /\ tagIn = << >>
    /\ stamped = None
    /\ coreDef = None
    /\ zedTable = None

\* no statistic has been asked for
StatIdle ==
    /\ summary = new(None).summary
    /\ avgOut = None
    /\ pctOut = None

\* no command has run
CmdIdle ==
    /\ sortBefore = None
    /\ sortOrder = None
    /\ configFiles = << >>
    /\ lastCmd = None
    /\ status = None
    /\ stdout = << >>
    /\ stderr = << >>
    /\ processed = None

\* nothing has been serialized
JsonIdle ==
    /\ wire = None
    /\ coreBack = None
    /\ zedBack = None

\* no parser has been built
ParseIdle ==
    /\ line = << >>
    /\ typed = 0
    /\ parser = None
    /\ parseOut = None
    /\ contentOut = None
    /\ construction = None

(***************************************************************************)
(* Spec: a ScanResult driven through its public operations.                *)
(***************************************************************************)
Init ==
    /\ result = new(ROOT)
    /\ ApiIdle
    /\ ScanIdle
    /\ ClassifyIdle
    /\ ParseIdle
    /\ JsonIdle
    /\ StatIdle
    /\ CmdIdle

\* result.add_file(path, items); the result is built before it is queried
AddFile(path, items) ==
    /\ steps < MaxAdds
    /\ filtered = None /\ jsonView = None /\ sortedView = None
    /\ result' = add_file(result, path, items)
    /\ steps' = steps + 1
    /\ calls' = calls \cup {<<path, items # << >> >>}
    /\ UNCHANGED <<filtered, filterArg, jsonView, sortedView>>
    /\ UNCHANGED notApi

\* the scanner's bare increment for a file that could not be read
CountUnreadable ==
    /\ steps < MaxAdds
    /\ filtered = None /\ jsonView = None /\ sortedView = None
    /\ result' = count_unreadable(result)
    /\ steps' = steps + 1
    /\ UNCHANGED <<calls, filtered, filterArg, jsonView, sortedView>>
    /\ UNCHANGED notApi

\* a filter_by_tag that moves the matching items out of its source
FilterByTagDraining(tag) ==
    /\ filtered' = Some(filter_by_tag(result, tag))
    /\ filterArg' = Some(tag)
    /\ result' = [result EXCEPT !.files_map =
                     [p \in DOMAIN @ |-> SelectSeq(@[p],
                         LAMBDA it : ~eq_ignore_ascii_case(it.tag, tag))]]
    /\ UNCHANGED <<steps, calls, jsonView, sortedView>>
    /\ UNCHANGED notApi

\* let filtered = result.filter_by_tag(tag)  (takes &self)
FilterByTag(tag) ==
    /\ filtered' = Some(filter_by_tag(result, tag))
    /\ filterArg' = Some(tag)
    /\ UNCHANGED <<result, steps, calls, jsonView, sortedView>>
    /\ UNCHANGED notApi

\* let json = result.to_json_format()  (takes &self)
ToJsonFormat ==
    /\ jsonView = None
    /\ jsonView' = Some(to_json_format(result))
    /\ UNCHANGED <<result, steps, calls, filtered, filterArg, sortedView>>
    /\ UNCHANGED notApi

\* let sorted = result.sorted_files()  (takes &self)
SortedFiles ==
    /\ sortedView = None
    /\ sortedView' = Some(sorted_files(result))
    /\ UNCHANGED <<result, steps, calls, filtered, filterArg, jsonView>>
    /\ UNCHANGED notApi

Next ==
    \/ \E path \in Paths, items \in ItemLists : AddFile(path, items)
    \/ CountUnreadable
    \/ \E tag \in FilterTags : FilterByTag(tag)
    \/ ToJsonFormat
    \/ SortedFiles

Spec == Init /\ [][Next]_vars

(***************************************************************************)
(* RoundTripSpec: a result is built, its JSON-shaped view is serialized,   *)
(* and the output is read back by the core types and by the extension.     *)
(***************************************************************************)
\* serde_json::to_string(&json)
Serialize ==
    /\ jsonView # None
    /\ wire = None
    /\ wire' = Some(serialize(unwrap(jsonView)))
    /\ UNCHANGED <<coreBack, zedBack>>
    /\ UNCHANGED notJson

\* serde_json::from_str::<ScanResult>(&output) with the core types
Deserialize ==
    /\ wire # None
    /\ coreBack = None
    /\ coreBack' = Some(deserialize(unwrap(wire)))
    /\ UNCHANGED <<wire, zedBack>>
    /\ UNCHANGED notJson

\* parse_output(&output) of the editor extension
ParseOutput ==
    /\ wire # None
    /\ zedBack = None
    /\ zedBack' = Some(parse_output(unwrap(wire)))
    /\ UNCHANGED <<wire, coreBack>>
    /\ UNCHANGED notJson

RoundTripNext ==
    \/ \E path \in Paths, items \in ItemLists : AddFile(path, items)
    \/ CountUnreadable
    \/ ToJsonFormat
    \/ Serialize
    \/ Deserialize
    \/ ParseOutput

RoundTripSpec == Init /\ [][RoundTripNext]_vars

(***************************************************************************)
(* SummarySpec: the two statistics asked of any Summary value, the fields  *)
(* being public and the value also arriving by deserialization.            *)
(***************************************************************************)
\* the largest count in a Summary value
MaxCount == 3

Summaries ==
    [total_count : 0..MaxCount, files_with_todos : 0..MaxCount,
     files_scanned : 0..MaxCount,
     tag_counts : {EmptyMap, MapInsert(EmptyMap, S_TODO, 1)}]

SummaryInit ==
    /\ result = new(None)
    /\ ApiIdle
    /\ ScanIdle
    /\ ClassifyIdle
    /\ ParseIdle
    /\ JsonIdle
    /\ CmdIdle
    /\ summary \in Summaries
    /\ avgOut = None
    /\ pctOut = None

\* summary.avg_items_per_file()
AvgItemsPerFile ==
    /\ avgOut = None
    /\ avgOut' = Some(avg_items_per_file(summary))
    /\ UNCHANGED <<summary, pctOut>>
    /\ UNCHANGED notStat

\* summary.tag_percentage(count)
TagPercentage(count) ==
    /\ pctOut = None
    /\ pctOut' = Some([count |-> count, percentage |-> tag_percentage(summary, count)])
    /\ UNCHANGED <<summary, avgOut>>
    /\ UNCHANGED notStat

SummaryNext ==
    \/ AvgItemsPerFile
    \/ \E count \in 0..MaxCount : TagPercentage(count)

SummarySpec == SummaryInit /\ [][SummaryNext]_vars

(***************************************************************************)
(* ScanSpec: Scanner::scan (cli/scanner.rs).                               *)
(*                                                                         *)
(* The file system is the environment: whether the root exists, and what   *)
(* the walker yields next, are chosen nondeterministically, within what    *)
(* the overrides installed on the walker let through.  Globs belong to the *)
(* ignore crate: a pattern is known here by whether OverrideBuilder::add   *)
(* accepts it and, for the patterns "*" followed by a literal, by the file *)
(* names it matches.                                                       *)
(***************************************************************************)
G_star_dot_b == <<"*", ".", "b">>
G_star_b     == <<"*", "b">>
G_bad        == <<"[">>
\* include / exclude lists tried
PatternLists == { << >>, <<G_star_dot_b>>, <<G_star_b>>, <<G_bad>> }

\* OverrideBuilder::add(pattern) is Ok
glob_ok(pattern) == pattern # G_bad /\ pattern # <<"!">> \o G_bad

\* a glob "*" followed by a literal, without a separator, matches the paths
\* whose file name ends with the literal
glob_matches(pattern, path) ==
    /\ path # << >>
    /\ LET name == components(path)[Len(components(path))] IN
       /\ Len(name) >= Len(pattern) - 1
       /\ SubSeq(name, Len(name) - Len(pattern) + 2, Len(name)) = Tail(pattern)

\* an override in which the first matching glob decides
override_matched_first_wins(include, exclude, path, is_dir) ==
    IF \E k \in 1..Len(include) : glob_matches(include[k], path) THEN "Whitelist"
    ELSE IF \E k \in 1..Len(exclude) : glob_matches(exclude[k], path) THEN "Ignore"
    ELSE IF include # << >> /\ ~is_dir THEN "Ignore"
    ELSE "None"

\* Override::matched of the override built from the include patterns,
\* followed by the exclude patterns with "!" in front: the last glob that
\* matches decides, a glob with "!" for Ignore and one without for Whitelist;
\* without a match everything but a directory is ignored when there is a glob
\* without "!"
override_matched(include, exclude, path, is_dir) ==
    IF \E k \in 1..Len(exclude) : glob_matches(exclude[k], path) THEN "Ignore"
    ELSE IF \E k \in 1..Len(include) : glob_matches(include[k], path) THEN "Whitelist"
    ELSE IF include # << >> /\ ~is_dir THEN "Ignore"
    ELSE "None"

\* the parse outcomes of a readable file: what parse_file returns for it
FileContents ==
    { << >>,
      <<create_test_item(S_TODO, MSG, 1)>>,
      <<create_test_item(S_TODO, MSG, 1), create_test_item(S_FIXME, MSG, 2)>> }

P_stdin == <<"<", "s", "t", "d", "i", "n", ">">>

\* Result<DirEntry>: ok is FALSE for a walker error; is_dir is path.is_dir()
\* (follows symlinks); file_type is entry.file_type(); parse is what
\* parse_file(path) returns, None for Err
DirEntry(ok, is_dir, file_type, path, parse) ==
    [ok |-> ok, is_dir |-> is_dir, file_type |-> file_type, path |-> path, parse |-> parse]

ParseOutcomes == {None} \cup { Some(items) : items \in FileContents }

WalkerError   == DirEntry(FALSE, FALSE, None, << >>, None)
Directories   == { DirEntry(TRUE, TRUE, Some(t), << >>, None) : t \in {"dir", "symlink"} }
LinksToFiles  == { DirEntry(TRUE, FALSE, Some("symlink"), << >>, None) }
RegularFiles  == { DirEntry(TRUE, FALSE, Some("file"), p, o) : p \in Paths, o \in ParseOutcomes }
Untyped       == { DirEntry(TRUE, FALSE, None, P_stdin, o) : o \in {None, Some(<< >>)} }
DirEntries    == {WalkerError} \cup Directories \cup LinksToFiles \cup RegularFiles \cup Untyped

\* builder.overrides(overrides): the walker yields its errors, and the
\* entries the override does not ignore; the override knows an entry as a
\* directory by its own file type
walker_yields(o, e) ==
    \/ ~e.ok
    \/ override_matched(o.include, o.exclude, e.path, e.file_type = Some("dir")) # "Ignore"

\* the loop body reaches self.parse_file(path)
reaches_parse(e) ==
    /\ e.ok
    /\ ~e.is_dir
    /\ ~(e.file_type # None /\ unwrap(e.file_type) # "file")

\* a loop body that counts an entry the walker failed on as a scanned file
walk_entry_counting_errors(r, e) ==
    IF ~e.ok THEN count_unreadable(r)
    ELSE IF ~reaches_parse(e) THEN r
    ELSE IF e.parse # None THEN add_file(r, e.path, unwrap(e.parse))
    ELSE count_unreadable(r)

\* one iteration of the loop of Scanner::scan over a yielded entry
walk_entry(r, e) ==
    IF ~reaches_parse(e) THEN r
    ELSE IF e.parse # None THEN add_file(r, e.path, unwrap(e.parse))
    ELSE count_unreadable(r)

ScanInit ==
    /\ result = new(ROOT)
    /\ ApiIdle
    /\ ClassifyIdle
    /\ ParseIdle
    /\ JsonIdle
    /\ StatIdle
    /\ CmdIdle
    /\ pc = "idle"
    /\ rootExists \in BOOLEAN
    /\ opts \in { [DefaultScanOptions EXCEPT !.include = i, !.exclude = x, !.threads = t] :
                    i \in PatternLists, x \in PatternLists, t \in {0, MaxThreads} }
    /\ walked = 0
    /\ inflight = [w \in 1..WalkWorkers(opts.threads) |-> None]
    /\ parsed = 0
    /\ log = << >>
    /\ lastEntry = None
    /\ outcome = "none"

\* root.canonicalize()?; ScanResult::new; the walker is configured
Canonicalize ==
    /\ pc = "idle"
    /\ IF rootExists
       THEN /\ pc' = "overrides"
            /\ result' = new(ROOT)
            /\ outcome' = outcome
       ELSE /\ pc' = "failed"
            /\ outcome' = "Err"
            /\ result' = result
    /\ UNCHANGED <<opts, rootExists, walked, inflight, parsed, log, lastEntry>>
    /\ UNCHANGED notScan

\* an override build that drops the patterns the glob parser rejects
BuildOverridesLenient ==
    /\ pc = "overrides"
    /\ pc' = "walk"
    /\ UNCHANGED <<result, opts, rootExists, walked, inflight, parsed, log, lastEntry, outcome>>
    /\ UNCHANGED notScan

\* the include and exclude patterns are added to the OverrideBuilder, each
\* add(..)? returning early on an invalid glob
BuildOverrides ==
    /\ pc = "overrides"
    /\ LET excludes == [k \in 1..Len(opts.exclude) |-> <<"!">> \o opts.exclude[k]]
           added_ok == \A k \in 1..Len(opts.include) : glob_ok(opts.include[k])
           negated_ok == \A k \in 1..Len(excludes) : glob_ok(excludes[k])
       IN IF (opts.include # << >> \/ opts.exclude # << >>) /\ ~(added_ok /\ negated_ok)
          THEN pc' = "failed" /\ outcome' = "Err"
          ELSE pc' = "walk" /\ outcome' = outcome
    /\ UNCHANGED <<result, opts, rootExists, walked, inflight, parsed, log, lastEntry>>
    /\ UNCHANGED notScan

\* the paths of the entries the walker has yielded to parse_file
YieldedPaths ==
    { log[k][1] : k \in 1..Len(log) } \cup
    { unwrap(inflight[w]).entry.path : w \in { v \in DOMAIN inflight : inflight[v] # None } }

\* a worker takes the next entry of `for entry in builder.build()` and reads
\* the accumulator; the walker yields every path once
TakeEntry(w, e) ==
    /\ pc = "walk"
    /\ walked < MaxEntries
    /\ inflight[w] = None
    /\ e.path \notin YieldedPaths
    /\ walker_yields(opts, e)
    /\ inflight' = [inflight EXCEPT ![w] = Some([entry |-> e, seen |-> result])]
    /\ walked' = walked + 1
    /\ UNCHANGED <<result, pc, opts, rootExists, parsed, log, lastEntry, outcome>>
    /\ UNCHANGED notScan

\* the worker finishes the loop body for its entry and writes the accumulator
HandleEntry(w) ==
    /\ pc = "walk"
    /\ inflight[w] # None
    /\ LET e == unwrap(inflight[w]).entry IN
       /\ result' = walk_entry(unwrap(inflight[w]).seen, e)
       /\ parsed' = IF reaches_parse(e) THEN parsed + 1 ELSE parsed
       /\ log' = IF reaches_parse(e) THEN Append(log, <<e.path, e.parse>>) ELSE log
       /\ lastEntry' = Some(e)
    /\ inflight' = [inflight EXCEPT ![w] = None]
    /\ UNCHANGED <<pc, opts, rootExists, walked, outcome>>
    /\ UNCHANGED notScan

\* the walker is exhausted and every entry handled: Ok(result)
ReturnOk ==
    /\ pc = "walk"
    /\ \A w \in DOMAIN inflight : inflight[w] = None
    /\ pc' = "done"
    /\ outcome' = "Ok"
    /\ UNCHANGED <<result, opts, rootExists, walked, inflight, parsed, log, lastEntry>>
    /\ UNCHANGED notScan

ScanNext ==
    \/ Canonicalize
    \/ BuildOverrides
    \/ \E w \in DOMAIN inflight, e \in DirEntries : TakeEntry(w, e)
    \/ \E w \in DOMAIN inflight : HandleEntry(w)
    \/ ReturnOk

\* the calling thread runs the loop until the walker is exhausted
ScanSpec == ScanInit /\ [][ScanNext]_vars /\ WF_vars(ScanNext)

(***************************************************************************)
(* ClassifySpec: the tag catalogs and the classifier (core/tags.rs,        *)
(* core/priority.rs, extensions/zed/types.rs, extensions/zed/formatter.rs).*)
(***************************************************************************)
TagDefinition(name, priority) == [name |-> name, priority |-> priority]

\* DEFAULT_TAGS of todo-tree-core
CoreDefaultTags ==
    << TagDefinition(S_TODO, "Medium"),   TagDefinition(S_WIP, "Medium"),
       TagDefinition(S_MAYBE, "Medium"),  TagDefinition(S_FIXME, "Critical"),
       TagDefinition(S_BUG, "Critical"),  TagDefinition(S_ERROR, "Critical"),
       TagDefinition(S_HACK, "High"),     TagDefinition(S_WARN, "High"),
       TagDefinition(S_WARNING, "High"),  TagDefinition(S_FIX, "High"),
       TagDefinition(S_NOTE, "Low"),      TagDefinition(S_XXX, "Low"),
       TagDefinition(S_INFO, "Low"),      TagDefinition(S_DOCS, "Low"),
       TagDefinition(S_PERF, "Low"),      TagDefinition(S_TEST, "Low"),
       TagDefinition(S_IDEA, "Low") >>

\* DEFAULT_TAGS of the editor extension
ZedDefaultTags ==
    << TagDefinition(S_TODO, "Medium"),   TagDefinition(S_FIXME, "Critical"),
       TagDefinition(S_BUG, "Critical"),  TagDefinition(S_NOTE, "Low"),
       TagDefinition(S_HACK, "High"),     TagDefinition(S_XXX, "Critical"),
       TagDefinition(S_WARN, "High"),     TagDefinition(S_PERF, "Medium") >>

\* find_tag: the first definition whose name equals `name` ignoring ASCII case
find_tag(name) ==
    LET hits == { i \in 1..Len(CoreDefaultTags) :
                    eq_ignore_ascii_case(CoreDefaultTags[i].name, name) }
    IN IF hits = {} THEN None
       ELSE Some(CoreDefaultTags[CHOOSE i \in hits : \A j \in hits : i <= j])

\* one row of OutputFormatter::format_priority_reference: the names of the
\* extension's definitions carrying the priority
priority_reference_row(priority) ==
    LET row == SelectSeq(ZedDefaultTags, LAMBDA t : t.priority = priority)
    IN [k \in 1..Len(row) |-> row[k].name]

\* str::to_lowercase over ASCII letters, for the lower-case inputs
LowerCased(s) == [i \in 1..Len(s) |-> to_ascii_lowercase(s[i])]

S_CUSTOM == <<"C", "U", "S", "T", "O", "M">>

\* "fix" written with the fi ligature (U+FB01), whose upper case is FI
S_fi_x == <<"fi-ligature", "x">>

\* tag names handed to the classifier: the catalog names, their lower-case
\* spellings, names of the match in mixed case, names with a letter outside
\* ASCII (the fi ligature, the long s, the Kelvin sign U+212A, an accented
\* e), the empty name and a name no table knows
ClassifyInputs ==
    { CoreDefaultTags[i].name : i \in 1..Len(CoreDefaultTags) } \cup
    { LowerCased(CoreDefaultTags[i].name) : i \in 1..Len(CoreDefaultTags) } \cup
    { <<"E", "r", "r", "o", "r">>, <<"w", "A", "r", "N", "i", "N", "g">>,
      <<"F", "i", "X">>, <<"W", "i", "p">>, <<"m", "a", "y", "B", "E">>,
      <<"I", "n", "f", "o">>, <<"d", "O", "C", "S">>, <<"I", "d", "e", "a">> } \cup
    { S_fi_x, S_test_long_s, <<"h", "a", "c", "kelvin">>,
      <<"i", "d", "e-acute", "e">> } \cup
    { << >>, S_CUSTOM }

ClassifyInit ==
    /\ result = new(ROOT)
    /\ ApiIdle
    /\ ScanIdle
    /\ ParseIdle
    /\ JsonIdle
    /\ StatIdle
    /\ CmdIdle
    /\ tagIn \in ClassifyInputs
    /\ stamped = None
    /\ coreDef = None
    /\ zedTable = None

\* Priority::from_tag(tag), as the parser stamps it on an item
Classify ==
    /\ stamped = None
    /\ stamped' = Some(from_tag(tagIn))
    /\ UNCHANGED <<tagIn, coreDef, zedTable>>
    /\ UNCHANGED notClassify

\* find_tag(tag) in the core catalog
FindTag ==
    /\ coreDef = None
    /\ coreDef' = Some(find_tag(tagIn))
    /\ UNCHANGED <<tagIn, stamped, zedTable>>
    /\ UNCHANGED notClassify

\* OutputFormatter::format_priority_reference()
FormatPriorityReference ==
    /\ zedTable = None
    /\ zedTable' = Some([p \in Priorities |-> priority_reference_row(p)])
    /\ UNCHANGED <<tagIn, stamped, coreDef>>
    /\ UNCHANGED notClassify

ClassifyNext ==
    \/ Classify
    \/ FindTag
    \/ FormatPriorityReference

ClassifySpec == ClassifyInit /\ [][ClassifyNext]_vars

(***************************************************************************)
(* The regex of the parser (cli/parser.rs, DEFAULT_REGEX), matched the way *)
(* the regex crate matches it: unanchored, leftmost start first, then the  *)
(* alternatives in order and the repetitions greedy.                       *)
(***************************************************************************)
\* \s and char::is_whitespace: the white space the model carries
IsWhitespace(c) == c \in {" ", "TAB", "LF"}

\* simple case folding, as (?i) compares characters
regex_fold(c) ==
    IF c = "E-acute" THEN "e-acute"
    ELSE IF c = "long-s" THEN "s"
    ELSE IF c = "kelvin" THEN "k"
    ELSE to_ascii_lowercase(c)

\* one literal character of the pattern against one character of the text
CharMatches(ci, c, p) == IF ci THEN regex_fold(c) = regex_fold(p) ELSE c = p

\* the literal lit matches the text from position i on
LiteralAt(text, i, lit, ci) ==
    /\ i + Len(lit) - 1 <= Len(text)
    /\ \A k \in 1..Len(lit) : CharMatches(ci, text[i + k - 1], lit[k])

\* group 1 of DEFAULT_REGEX, in the order of its alternatives:
\* (//|#|<!--|;|/\*|\*|--|%|"""|'''|REM\s|::)
Marker(lit, space) == [lit |-> lit, space |-> space]
CommentMarkers ==
    << Marker(<<"/", "/">>, FALSE),           Marker(<<"#">>, FALSE),
       Marker(<<"<", "!", "-", "-">>, FALSE), Marker(<<";">>, FALSE),
       Marker(<<"/", "*">>, FALSE),           Marker(<<"*">>, FALSE),
       Marker(<<"-", "-">>, FALSE),           Marker(<<"%">>, FALSE),
       Marker(<<"\"", "\"", "\"">>, FALSE),   Marker(<<"'", "'", "'">>, FALSE),
       Marker(<<"R", "E", "M">>, TRUE),       Marker(<<":", ":">>, FALSE) >>

\* a marker group made optional: it also matches the empty string
MarkerEndOptional(text, i, m, ci) ==
    IF /\ LiteralAt(text, i, m.lit, ci)
       /\ m.space => (i + Len(m.lit) <= Len(text) /\ IsWhitespace(text[i + Len(m.lit)]))
    THEN i + Len(m.lit) + (IF m.space THEN 1 ELSE 0)
    ELSE i

\* the position after marker m when it matches at i, else 0
MarkerEnd(text, i, m, ci) ==
    IF /\ LiteralAt(text, i, m.lit, ci)
       /\ m.space => (i + Len(m.lit) <= Len(text) /\ IsWhitespace(text[i + Len(m.lit)]))
    THEN i + Len(m.lit) + (IF m.space THEN 1 ELSE 0)
    ELSE 0

\* (?:\(([^)]+)\))? : the position of the closing parenthesis of an author
\* group starting at q, else 0
AuthorClose(text, q) ==
    IF q <= Len(text) /\ text[q] = "(" /\ \E r \in (q + 1)..Len(text) : text[r] = ")"
    THEN LET r == CHOOSE x \in (q + 1)..Len(text) :
                     text[x] = ")" /\ \A y \in (q + 1)..(x - 1) : text[y] # ")"
         IN IF r >= q + 2 THEN r ELSE 0
    ELSE 0

\* [:\s] at position p
SeparatorAt(text, p) == p <= Len(text) /\ (text[p] = ":" \/ IsWhitespace(text[p]))

\* a tail whose separator is optional, as with [:\s]* in the template
TailMatchesAnything(text, q) == TRUE

\* the rest of the pattern after the tag, from position q:
\* (?:\(([^)]+)\))?[:\s]+(.*)
TailMatches(text, q) ==
    \/ (AuthorClose(text, q) # 0 /\ SeparatorAt(text, AuthorClose(text, q) + 1))
    \/ SeparatorAt(text, q)

\* the end of the greedy run [:\s]+ that starts at p
RECURSIVE SeparatorRunEnd(_, _)
SeparatorRunEnd(text, p) ==
    IF SeparatorAt(text, p + 1) THEN SeparatorRunEnd(text, p + 1) ELSE p

\* (.*) from position p: up to the end of the line
RECURSIVE DotStarEnd(_, _)
DotStarEnd(text, p) ==
    IF p <= Len(text) /\ text[p] # "LF" THEN DotStarEnd(text, p + 1) ELSE p - 1

\* length of the white-space run that starts at p
RECURSIVE SpaceRun(_, _)
SpaceRun(text, p) ==
    IF p <= Len(text) /\ IsWhitespace(text[p]) THEN 1 + SpaceRun(text, p + 1) ELSE 0

\* the marker alternatives that match at start i
MarkersAt(re, text, i) ==
    { m \in 1..Len(CommentMarkers) :
        MarkerEnd(text, i, CommentMarkers[m], re.case_insensitive) # 0 }

\* the ways the pattern matches from start i: <<marker alternative, length
\* of \s*, tag alternative>>
MatchesAt(re, text, i) ==
    UNION { LET p == MarkerEnd(text, i, CommentMarkers[m], re.case_insensitive) IN
            { c \in {m} \X (0..SpaceRun(text, p)) \X (1..Len(re.tags)) :
                /\ LiteralAt(text, p + c[2], re.tags[c[3]], re.case_insensitive)
                /\ TailMatches(text, p + c[2] + Len(re.tags[c[3]])) } :
            m \in MarkersAt(re, text, i) }

\* the match the engine prefers: the first marker alternative, then the
\* longest \s*, then the first tag alternative
Preferred(cands) ==
    CHOOSE c \in cands : \A d \in cands :
        \/ c[1] < d[1]
        \/ (c[1] = d[1] /\ c[2] > d[2])
        \/ (c[1] = d[1] /\ c[2] = d[2] /\ c[3] <= d[3])

\* UTF-8 length of a character
ByteLen(c) ==
    IF c \in {"e-acute", "E-acute", "sharp-s", "long-s"} THEN 2
    ELSE IF c \in {"fi-ligature", "kelvin"} THEN 3
    ELSE 1

\* byte offset of position i of the text (Match::start)
RECURSIVE ByteOffset(_, _)
ByteOffset(text, i) ==
    IF i <= 1 THEN 0 ELSE ByteOffset(text, i - 1) + ByteLen(text[i - 1])

\* the leftmost start at or after i from which the pattern matches, else 0
RECURSIVE FirstStart(_, _, _)
FirstStart(re, text, i) ==
    IF i > Len(text) THEN 0
    ELSE IF MatchesAt(re, text, i) # {} THEN i
    ELSE FirstStart(re, text, i + 1)

\* groups 3 and 4, the tag spanning tag_start..q-1 and the author group,
\* when there is one, closing at close
TailGroups(text, tag_start, q, close, sep_end) ==
    [tag       |-> SubSeq(text, tag_start, q - 1),
     tag_start |-> ByteOffset(text, tag_start),
     author    |-> IF close # 0 THEN Some(SubSeq(text, q + 1, close - 1)) ELSE None,
     message   |-> SubSeq(text, sep_end + 1, DotStarEnd(text, sep_end + 1))]

\* the author group is taken when a separator follows it
AuthorGroups(text, tag_start, q, close) ==
    TailGroups(text, tag_start, q, close,
               SeparatorRunEnd(text, IF close # 0 THEN close + 1 ELSE q))

\* the groups of the match with the tag spanning tag_start..q-1
TagGroups(text, tag_start, q) ==
    AuthorGroups(text, tag_start, q,
                 IF SeparatorAt(text, AuthorClose(text, q) + 1)
                 THEN AuthorClose(text, q) ELSE 0)

\* the groups of the preferred match c from start i
MatchGroups(re, text, i, c) ==
    TagGroups(text,
              MarkerEnd(text, i, CommentMarkers[c[1]], re.case_insensitive) + c[2],
              MarkerEnd(text, i, CommentMarkers[c[1]], re.case_insensitive) + c[2]
                  + Len(re.tags[c[3]]))

\* the groups of the match from start i, None when i is 0
CapturesAt(re, text, i) ==
    IF i = 0 THEN None
    ELSE Some(MatchGroups(re, text, i, Preferred(MatchesAt(re, text, i))))

\* Regex::captures: None, or the groups of the leftmost match
captures(re, text) == CapturesAt(re, text, FirstStart(re, text, 1))

\* str::trim
RECURSIVE trim_start(_)
trim_start(t) ==
    IF t # << >> /\ IsWhitespace(Head(t)) THEN trim_start(Tail(t)) ELSE t
RECURSIVE trim_end(_)
trim_end(t) ==
    IF t # << >> /\ IsWhitespace(t[Len(t)]) THEN trim_end(SubSeq(t, 1, Len(t) - 1)) ELSE t
trim(t) == trim_end(trim_start(t))

(***************************************************************************)
(* TodoParser (cli/parser.rs).                                             *)
(***************************************************************************)
\* the default template handed over as a custom one, and a template with an
\* unclosed group, "(" followed by $TAGS, which regex rejects
T_default  == "DEFAULT_REGEX"
T_unclosed == "($TAGS"
Templates  == {T_default, T_unclosed}

\* RegexBuilder::build returns Ok for the template
regex_builds(template) == template # T_unclosed

\* .expect("Failed to build regex pattern") panicked: in place of the
\* Option build_pattern returns, and in place of the TodoParser
Panic   == <<"panic", "Failed to build regex pattern">>
Unwound == [panic |-> "Failed to build regex pattern"]

\* a build_pattern that compiles every pattern case-insensitive
build_pattern_any_case(tags, case_sensitive, custom_regex) ==
    IF tags = << >> THEN None
    ELSE IF custom_regex # None /\ ~regex_builds(unwrap(custom_regex)) THEN Panic
    ELSE Some([template |-> IF custom_regex # None THEN unwrap(custom_regex)
                            ELSE T_default,
               tags |-> tags,
               case_insensitive |-> TRUE])

\* a build_pattern that searches for TEST when no tag is given
build_pattern_with_fallback_tag(tags, case_sensitive, custom_regex) ==
    IF custom_regex # None /\ ~regex_builds(unwrap(custom_regex)) THEN Panic
    ELSE Some([template |-> IF custom_regex # None THEN unwrap(custom_regex)
                            ELSE T_default,
               tags |-> IF tags = << >> THEN <<S_TEST>> ELSE tags,
               case_insensitive |-> ~case_sensitive])

\* TodoParser::build_pattern: no pattern for an empty tag list, else the
\* template with $TAGS replaced by the escaped tags joined with |, compiled
\* case-insensitive unless case_sensitive
build_pattern(tags, case_sensitive, custom_regex) ==
    IF tags = << >> THEN None
    ELSE IF custom_regex # None /\ ~regex_builds(unwrap(custom_regex)) THEN Panic
    ELSE Some([template |-> IF custom_regex # None THEN unwrap(custom_regex)
                            ELSE T_default,
               tags |-> tags,
               case_insensitive |-> ~case_sensitive])

\* TodoParser::with_regex: the panic of build_pattern unwinds through it
with_regex(tags, case_sensitive, custom_regex) ==
    IF build_pattern(tags, case_sensitive, custom_regex) = Panic THEN Unwound
    ELSE [pattern |-> build_pattern(tags, case_sensitive, custom_regex),
          tags |-> tags,
          case_sensitive |-> case_sensitive]

\* TodoParser::new
TodoParser_new(tags, case_sensitive) == with_regex(tags, case_sensitive, None)

\* self.tags.iter().find(|t| t.eq_ignore_ascii_case(&tag)).cloned().unwrap_or(tag)
normalize_tag(tags, tag) ==
    LET hits == { k \in 1..Len(tags) : eq_ignore_ascii_case(tags[k], tag) } IN
    IF hits = {} THEN tag
    ELSE tags[CHOOSE k \in hits : \A j \in hits : k <= j]

\* the TodoItem parse_line builds from the groups c and the normalized tag
parsed_item(text, line_number, c, normalized_tag) ==
    [tag |-> normalized_tag,
     message |-> trim(c.message),
     line |-> line_number,
     column |-> c.tag_start + 1,
     line_content |-> Some(text),
     author |-> c.author,
     priority |-> from_tag(normalized_tag)]

\* the rest of parse_line once captures has answered
parse_captures(p, text, line_number, caps) ==
    IF caps = None THEN None
    ELSE Some(parsed_item(text, line_number, unwrap(caps),
                          IF p.case_sensitive THEN unwrap(caps).tag
                          ELSE normalize_tag(p.tags, unwrap(caps).tag)))

\* TodoParser::parse_line
parse_line(p, text, line_number) ==
    IF p.pattern = None THEN None
    ELSE parse_captures(p, text, line_number, captures(unwrap(p.pattern), text))

\* str::lines: the text split at each line feed, a carriage return before
\* the line feed dropped with it; a final line feed ends the last line
RECURSIVE lines(_)
lines(content) ==
    IF content = << >> THEN << >>
    ELSE IF \A k \in 1..Len(content) : content[k] # "LF" THEN <<content>>
    ELSE LET k == CHOOSE k \in 1..Len(content) :
                      /\ content[k] = "LF"
                      /\ \A j \in 1..(k - 1) : content[j] # "LF"
         IN <<IF k > 1 /\ content[k - 1] = "CR" THEN SubSeq(content, 1, k - 2)
              ELSE SubSeq(content, 1, k - 1)>>
            \o lines(SubSeq(content, k + 1, Len(content)))

\* .enumerate().filter_map(|(idx, line)| self.parse_line(line, idx + 1)) from
\* the line at position n on
RECURSIVE parse_lines(_, _, _)
parse_lines(p, ls, n) ==
    IF n > Len(ls) THEN << >>
    ELSE (IF parse_line(p, ls[n], n) = None THEN << >>
          ELSE <<unwrap(parse_line(p, ls[n], n))>>) \o parse_lines(p, ls, n + 1)

\* TodoParser::parse_content
parse_content(p, content) == parse_lines(p, lines(content), 1)

(***************************************************************************)
(* ParseSpec: a line is put together, a parser is built, the line parsed.  *)
(***************************************************************************)
\* the pieces lines are put together from: markers with their blank, a tag
\* in three spellings, separators, a letter and an author group
Pieces ==
    { <<"/", "/", " ">>, <<"R", "E", "M", " ">>, <<"r", "e", "m", " ">>,
      S_TEST, S_test, S_test_long_s, <<":">>, <<" ">>, <<"x">>, <<"(", "x", ")">> }

\* the tag lists parsers are built with
TagLists == { << >>, <<S_TEST>>, <<S_test>> }

ParseInit ==
    /\ result = new(ROOT)
    /\ ApiIdle
    /\ ScanIdle
    /\ ClassifyIdle
    /\ ParseIdle
    /\ JsonIdle
    /\ StatIdle
    /\ CmdIdle

\* the caller's text grows by one piece
TypePiece(piece) ==
    /\ construction = None
    /\ typed < MaxPieces
    /\ line' = line \o piece
    /\ typed' = typed + 1
    /\ UNCHANGED <<parser, parseOut, contentOut, construction>>
    /\ UNCHANGED notParse

\* let parser = TodoParser::new(&tags, case_sensitive)
BuildParser(tags, case_sensitive) ==
    /\ construction = None
    /\ parser' = Some(TodoParser_new(tags, case_sensitive))
    /\ construction' = Some([tags |-> tags, case_sensitive |-> case_sensitive,
                             custom_regex |-> None, outcome |-> "returned"])
    /\ UNCHANGED <<line, typed, parseOut, contentOut>>
    /\ UNCHANGED notParse

\* the value the caller of with_regex holds afterwards: the parser, or
\* nothing when the call panicked
constructed(p) == IF p = Unwound THEN None ELSE Some(p)

\* let parser = TodoParser::with_regex(&tags, case_sensitive, Some(template))
BuildParserWithRegex(tags, case_sensitive, template) ==
    /\ construction = None
    /\ parser' = constructed(with_regex(tags, case_sensitive, Some(template)))
    /\ construction' = Some([tags |-> tags, case_sensitive |-> case_sensitive,
                             custom_regex |-> Some(template),
                             outcome |-> IF parser' = None THEN "panicked"
                                         ELSE "returned"])
    /\ UNCHANGED <<line, typed, parseOut, contentOut>>
    /\ UNCHANGED notParse

\* parser.parse_line(line, 1)
ParseLine ==
    /\ parser # None
    /\ parseOut = None
    /\ parseOut' = Some(parse_line(unwrap(parser), line, 1))
    /\ UNCHANGED <<line, typed, parser, contentOut, construction>>
    /\ UNCHANGED notParse

ParseNext ==
    \/ \E piece \in Pieces : TypePiece(piece)
    \/ \E tags \in TagLists, case_sensitive \in BOOLEAN : BuildParser(tags, case_sensitive)
    \/ ParseLine

ParseSpec == ParseInit /\ [][ParseNext]_vars

(***************************************************************************)
(* ConstructSpec: a short line is put together, a parser is built with a   *)
(* custom template, and, if the constructor returned, the line is parsed.  *)
(***************************************************************************)
\* the caller's text grows by one piece, up to MaxTemplatePieces
TypeShortPiece(piece) ==
    /\ typed < MaxTemplatePieces
    /\ TypePiece(piece)

\* a commented line with the tag TEST and its line feed
L_test_x == <<"/", "/", " ", "T", "E", "S", "T", ":", " ", "x", "LF">>

\* parser.parse_content(text)
ParseContent ==
    /\ parser # None
    /\ contentOut = None
    /\ contentOut' = Some(parse_content(unwrap(parser), line))
    /\ UNCHANGED <<line, typed, parser, parseOut, construction>>
    /\ UNCHANGED notParse

ConstructNext ==
    \/ \E piece \in Pieces : TypeShortPiece(piece)
    \/ TypeShortPiece(L_test_x)
    \/ ParseContent
    \/ \E tags \in TagLists, case_sensitive \in BOOLEAN, template \in Templates :
           BuildParserWithRegex(tags, case_sensitive, template)
    \/ ParseLine

ConstructSpec == ParseInit /\ [][ConstructNext]_vars

(***************************************************************************)
(* Helpers of the properties.                                              *)
(***************************************************************************)
\* sum of the values of a map
RECURSIVE SumOver(_, _)
SumOver(m, keys) ==
    IF keys = {} THEN 0
    ELSE LET k == CHOOSE x \in keys : TRUE IN m[k] + SumOver(m, keys \ {k})
SumValues(m) == SumOver(m, DOMAIN m)

\* two strings are the same up to the case of their ASCII letters
SameIgnoringAsciiCase(a, b) ==
    /\ Len(a) = Len(b)
    /\ \A i \in 1..Len(a) : to_ascii_uppercase(a[i]) = to_ascii_uppercase(b[i])

\* the items of a list whose tag is `tag` up to ASCII case, in their order
ItemsTagged(items, tag) ==
    SelectSeq(items, LAMBDA it : SameIgnoringAsciiCase(it.tag, tag))

\* number of stored items of r whose tag equals tag ignoring ASCII case
MatchingItems(r, tag) ==
    SumValues([p \in DOMAIN r.files_map |-> Len(ItemsTagged(r.files_map[p], tag))])

\* stored files of r holding at least one such item
MatchingFiles(r, tag) ==
    { p \in DOMAIN r.files_map : ItemsTagged(r.files_map[p], tag) # << >> }

(***************************************************************************)
(* Properties of Spec.                                                     *)
(***************************************************************************)
\* C1: total_count is the sum of the values of tag_counts, and
\* files_with_todos never exceeds files_scanned.
C1_SummaryInvariant ==
    /\ result.summary.total_count = SumValues(result.summary.tag_counts)
    /\ result.summary.files_with_todos <= result.summary.files_scanned

\* two tags counted, several items in one file, and a file without items
C1_Witness ==
    /\ Cardinality(DOMAIN result.summary.tag_counts) = 2
    /\ result.summary.total_count > result.summary.files_with_todos
    /\ result.summary.files_with_todos < result.summary.files_scanned

\* C2: the keys of files_map are exactly the paths add_file was called for
\* with a non-empty list, no stored list is empty, and every call (also one
\* with an empty list) is counted in files_scanned.
C2_StoredIffNonEmpty ==
    /\ DOMAIN result.files_map = { c[1] : c \in { d \in calls : d[2] } }
    /\ \A p \in DOMAIN result.files_map : result.files_map[p] # << >>
    /\ result.summary.files_scanned = steps

\* one path added with an empty list only, next to a stored one
C2_Witness ==
    \E p \in Paths, q \in Paths :
        /\ <<p, FALSE>> \in calls /\ <<p, TRUE>> \notin calls
        /\ p \notin DOMAIN result.files_map
        /\ q \in DOMAIN result.files_map
        /\ result.summary.files_scanned = 2

\* C6: the result of filter_by_tag has the files_scanned of its source.
C6_FilesScannedCopied ==
    filtered # None =>
        unwrap(filtered).summary.files_scanned = result.summary.files_scanned

\* C7 as claimed: filter_by_tag does not increase total_count, tag_counts
\* has no key but the argument, total_count counts the items matching the
\* argument ignoring ASCII case and files_with_todos the files holding one.
C7_OnlyFilteredTag_Original ==
    filtered # None =>
        LET f == unwrap(filtered)  tag == unwrap(filterArg) IN
        /\ f.summary.total_count <= result.summary.total_count
        /\ DOMAIN f.summary.tag_counts \subseteq {tag}
        /\ f.summary.total_count = MatchingItems(result, tag)
        /\ f.summary.files_with_todos = Cardinality(MatchingFiles(result, tag))

\* C7 amended: every key of tag_counts equals the argument ignoring ASCII
\* case (the key keeps the spelling of the items).
C7_OnlyFilteredTag ==
    filtered # None =>
        LET f == unwrap(filtered)  tag == unwrap(filterArg) IN
        /\ f.summary.total_count <= result.summary.total_count
        /\ \A k \in DOMAIN f.summary.tag_counts : SameIgnoringAsciiCase(k, tag)
        /\ f.summary.total_count = MatchingItems(result, tag)
        /\ f.summary.files_with_todos = Cardinality(MatchingFiles(result, tag))

\* a filter that keeps the items of two files under a spelling that is not
\* the argument's, and drops others
C7_Witness ==
    /\ filtered # None
    /\ DOMAIN unwrap(filtered).summary.tag_counts # {}
    /\ unwrap(filterArg) \notin DOMAIN unwrap(filtered).summary.tag_counts
    /\ unwrap(filtered).summary.total_count < result.summary.total_count
    /\ unwrap(filtered).summary.files_with_todos = 2

\* C8: a filter_by_tag call leaves its source as it was, and returns a
\* separate value holding the filtered items under the source's root.
C8_FilterLeavesSource ==
    [][filtered' # filtered =>
          /\ result' = result
          /\ unwrap(filtered').root = result.root
          /\ unwrap(filtered').files_map =
                [p \in MatchingFiles(result, unwrap(filterArg')) |->
                    ItemsTagged(result.files_map[p], unwrap(filterArg'))]]_vars

\* a filter that kept some items of a source that holds others too
C8_Witness ==
    /\ filtered # None
    /\ DOMAIN unwrap(filtered).files_map # {}
    /\ unwrap(filtered).files_map # result.files_map
    /\ Cardinality(DOMAIN result.files_map) = 2

\* C16: add_file with an empty item list adds one to files_scanned and
\* leaves files_with_todos, total_count, tag_counts, files_map and files as
\* they were.
C16_EmptyAddFrame ==
    [][(\E p \in Paths : AddFile(p, << >>)) =>
          /\ result'.summary = [result.summary EXCEPT !.files_scanned = @ + 1]
          /\ result'.files_map = result.files_map
          /\ result'.files = result.files
          /\ result'.root = result.root]_vars

\* the same path added once with items and once with an empty list
C16_Witness ==
    \E p \in Paths :
        /\ <<p, FALSE>> \in calls /\ <<p, TRUE>> \in calls
        /\ p \in DOMAIN result.files_map
        /\ result.summary.files_scanned = 2
        /\ result.summary.files_with_todos = 1

\* the count of a tag in a summary, 0 when it has no entry
CountOf(sm, tag) == IF tag \in DOMAIN sm.tag_counts THEN sm.tag_counts[tag] ELSE 0

\* the number of items of a list that carry the tag
Tagged(items, tag) == Cardinality({ k \in 1..Len(items) : items[k].tag = tag })

\* after is before with the non-empty list B stored for its key p and
\* counted as one more file with items
OverwriteCounted(before, p, B, after) ==
    /\ after.files_map[p] = B
    /\ DOMAIN after.files_map = DOMAIN before.files_map
    /\ \A q \in DOMAIN before.files_map \ {p} :
           after.files_map[q] = before.files_map[q]
    /\ after.summary.files_scanned = before.summary.files_scanned + 1
    /\ after.summary.files_with_todos = before.summary.files_with_todos + 1
    /\ after.summary.total_count = before.summary.total_count + Len(B)
    /\ \A t \in ItemTags \cup DOMAIN after.summary.tag_counts :
           CountOf(after.summary, t) = CountOf(before.summary, t) + Tagged(B, t)

\* C22: add_file with a non-empty list B for a path already stored with a
\* list A stores B in place of A and counts the call like any other:
\* files_scanned and files_with_todos grow by one, total_count by |B| and
\* every tag count by the items of B with that tag; nothing is taken off for
\* A, so after the two calls the counts hold both A and B.
C22_LastWriteWinsCountsKept ==
    (filtered = None /\ jsonView = None /\ sortedView = None) =>
        \A p \in DOMAIN result.files_map, B \in ItemLists \ {<< >>} :
            OverwriteCounted(result, p, B, add_file(result, p, B))

\* one path added twice, first with two items and then with one: one list of
\* one item is stored, two files with items and three items are counted
C22_Witness ==
    \E p \in Paths :
        /\ DOMAIN result.files_map = {p}
        /\ Len(result.files_map[p]) = 1
        /\ result.summary.files_scanned = 2
        /\ result.summary.files_with_todos = 2
        /\ result.summary.total_count = 3
        /\ SumValues(result.summary.tag_counts) = 3

\* C26: in a result built by add_file calls the item count is at least the
\* count of files with items, and is_empty() holds exactly when total_count is
\* 0, which is exactly when files_with_todos is 0.
C26_CountsAndEmptiness ==
    /\ result.summary.total_count >= result.summary.files_with_todos
    /\ is_empty(result) <=> result.summary.total_count = 0
    /\ result.summary.total_count = 0 <=> result.summary.files_with_todos = 0

\* a call with no items and a call with two items have been made: the result
\* is not empty and holds more items than files
C26_Witness ==
    /\ result.summary.files_scanned > result.summary.files_with_todos
    /\ result.summary.total_count > result.summary.files_with_todos
    /\ result.summary.files_with_todos > 0
    /\ ~is_empty(result)

\* C25: add_file calls on distinct paths commute: from a new result, or one
\* that has seen a single call, two calls in either order end in the same
\* summary, the same files_map and the same sorted_files(); a result built by
\* two calls on two paths is the one either order of the two calls builds.
C25_AddFileCommutes ==
    /\ steps <= 1 =>
          \A p \in Paths : \A q \in Paths \ {p}, A \in ItemLists, B \in ItemLists :
              /\ add_file(add_file(result, p, A), q, B).summary
                     = add_file(add_file(result, q, B), p, A).summary
              /\ add_file(add_file(result, p, A), q, B).files_map
                     = add_file(add_file(result, q, B), p, A).files_map
              /\ sorted_files(add_file(add_file(result, p, A), q, B))
                     = sorted_files(add_file(add_file(result, q, B), p, A))
    /\ \A p \in Paths : \A q \in Paths \ {p} :
          (steps = 2 /\ DOMAIN result.files_map = {p, q}) =>
              result = add_file(add_file(new(unwrap(result.root)),
                                         p, result.files_map[p]),
                                q, result.files_map[q])

\* two paths have been added with lists of different lengths
C25_Witness ==
    /\ steps = 2
    /\ filtered = None /\ jsonView = None /\ sortedView = None
    /\ DOMAIN result.files_map = Paths
    /\ Len(result.files_map[P_a_dot_b]) = 1
    /\ Len(result.files_map[P_a_slash_b]) = 2

\* C17: the files of the JSON-shaped view are in ascending order of path and
\* name the files in the order in which sorted_files returns them.
C17_JsonFilesInSortedOrder ==
    (jsonView # None /\ sortedView # None) =>
        LET files  == unwrap(unwrap(jsonView).files)
            sorted == unwrap(sortedView)
        IN /\ \A i \in 1..Len(files), j \in 1..Len(files) :
                  i < j => str_lt(files[i].path, files[j].path)
           /\ Len(files) = Len(sorted)
           /\ \A i \in 1..Len(files) :
                  /\ files[i].path = display(sorted[i][1])
                  /\ files[i].items = sorted[i][2]

(***************************************************************************)
(* Properties of ScanSpec.                                                 *)
(***************************************************************************)
\* the parse outcomes logged so far that were Ok, as their item lists
LoggedLists == { k \in 1..Len(log) : log[k][2] # None }

\* number of logged items carrying exactly the tag t
RECURSIVE LoggedWithTag(_, _)
LoggedWithTag(k, t) ==
    IF k = 0 THEN 0
    ELSE LoggedWithTag(k - 1, t) +
         (IF log[k][2] = None THEN 0
          ELSE Cardinality({ i \in 1..Len(unwrap(log[k][2])) : unwrap(log[k][2])[i].tag = t }))

RECURSIVE LoggedItems(_)
LoggedItems(k) ==
    IF k = 0 THEN 0
    ELSE LoggedItems(k - 1) + (IF log[k][2] = None THEN 0 ELSE Len(unwrap(log[k][2])))

LoggedTags ==
    UNION { { unwrap(log[k][2])[i].tag : i \in 1..Len(unwrap(log[k][2])) } : k \in LoggedLists }

\* the summary after the logged per-file updates, applied one after another
SequentialSummary ==
    [total_count      |-> LoggedItems(Len(log)),
     files_with_todos |-> Cardinality({ k \in LoggedLists : unwrap(log[k][2]) # << >> }),
     files_scanned    |-> Len(log),
     tag_counts       |-> [t \in LoggedTags |-> LoggedWithTag(Len(log), t)]]

\* C3: whatever ScanOptions.threads is, at most one per-file update is in
\* progress at a time, and the summary is the one the per-file updates made
\* so far give when applied one after another.
C3_NoLostUpdate ==
    /\ Cardinality({ w \in DOMAIN inflight : inflight[w] # None }) <= 1
    /\ \A w \in DOMAIN inflight : inflight[w] # None => unwrap(inflight[w]).seen = result
    /\ result.summary = SequentialSummary

\* a scan asked for two threads that folded two files with items
C3_Witness ==
    /\ pc = "done"
    /\ opts.threads = MaxThreads
    /\ Cardinality({ k \in LoggedLists : unwrap(log[k][2]) # << >> }) = 2
    /\ result.summary.total_count = 3

\* the last loop iteration called parse_file and it failed
ParseJustFailed ==
    /\ lastEntry # None
    /\ reaches_parse(unwrap(lastEntry))
    /\ unwrap(lastEntry).parse = None

\* C4: a file whose parse fails adds one to files_scanned and changes
\* nothing else; the loop goes on and the scan returns Ok.
C4_ParseFailureSkipsFile ==
    /\ [][(parsed' = parsed + 1 /\ log'[Len(log')][2] = None) =>
            /\ result'.summary = [result.summary EXCEPT !.files_scanned = @ + 1]
            /\ result'.files_map = result.files_map
            /\ pc' = "walk"
            /\ outcome' = "none"]_vars
    /\ [](pc = "done" => outcome = "Ok")
    /\ (ParseJustFailed ~> outcome = "Ok")

\* a scan that returned Ok after a failed parse followed by a file with items
C4_Witness ==
    /\ pc = "done" /\ outcome = "Ok"
    /\ Len(log) = 2
    /\ log[1][2] = None
    /\ log[2][2] # None /\ unwrap(log[2][2]) # << >>
    /\ result.summary.files_scanned = 2
    /\ result.summary.files_with_todos = 1

\* the root is missing or a pattern is not a glob
BadConfiguration ==
    \/ ~rootExists
    \/ \E k \in 1..Len(opts.include) : opts.include[k] = G_bad
    \/ \E k \in 1..Len(opts.exclude) : opts.exclude[k] = G_bad

\* C5: with a missing root or an invalid glob the scan returns Err before
\* any entry is walked, parsed or added; once walking it ends in Ok with
\* every yielded file counted.
C5_FailFast ==
    /\ [](/\ outcome = "Err" =>
               /\ pc = "failed"
               /\ walked = 0 /\ parsed = 0 /\ log = << >>
               /\ result.files_map = EmptyMap
               /\ result.summary.files_scanned = 0
          /\ BadConfiguration => (pc \in {"idle", "overrides", "failed"} /\ walked = 0)
          /\ pc = "failed" => (outcome = "Err" /\ BadConfiguration)
          /\ pc = "done" =>
               /\ outcome = "Ok"
               /\ result.summary.files_scanned = parsed
               /\ \A w \in DOMAIN inflight : inflight[w] = None)
    /\ (pc = "walk" ~> (pc = "done" /\ outcome = "Ok"))

\* a scan refused for its exclude pattern, the root and the include
\* pattern being fine
C5_Witness ==
    /\ pc = "failed" /\ outcome = "Err"
    /\ rootExists
    /\ opts.include = <<G_star_dot_b>>
    /\ opts.exclude = <<G_bad>>

\* C15: the loop iteration over an entry the walker reports as an error
\* leaves the whole result as it was, calls no parse_file, and the loop goes
\* on.
C15_WalkerErrorSkipped ==
    [][\A w \in DOMAIN inflight :
          (/\ inflight[w] # None
           /\ ~unwrap(inflight[w]).entry.ok
           /\ inflight'[w] = None) =>
              /\ result' = result
              /\ parsed' = parsed
              /\ log' = log
              /\ pc' = "walk"
              /\ outcome' = "none"]_vars

\* a scan that met a file with two items, then a walker error, and returned
\* Ok with that one file counted
C15_Witness ==
    /\ pc = "done" /\ outcome = "Ok"
    /\ walked = 2
    /\ lastEntry = Some(WalkerError)
    /\ result.summary.files_scanned = 1
    /\ result.summary.total_count = 2

NameEndsWith(path, pattern) ==
    /\ Len(path) >= Len(pattern) - 1
    /\ \A k \in 2..Len(pattern) : path[Len(path) - Len(pattern) + k] = pattern[k]

\* the path passes the patterns: it matches an include pattern unless there
\* is none, and it matches no exclude pattern
Admitted(o, path) ==
    /\ \/ o.include = << >>
       \/ \E k \in 1..Len(o.include) : NameEndsWith(path, o.include[k])
    /\ \A k \in 1..Len(o.exclude) : ~NameEndsWith(path, o.exclude[k])

\* C24: the walker yields a regular file exactly if the file matches an
\* include pattern, unless there is none, and matches no exclude pattern; only
\* such files are handed to parse_file, stored or counted in files_scanned.
C24_IncludeExclude ==
    pc \in {"walk", "done"} =>
        /\ \A e \in RegularFiles : walker_yields(opts, e) <=> Admitted(opts, e.path)
        /\ \A k \in 1..Len(log) : Admitted(opts, log[k][1])
        /\ \A p \in DOMAIN result.files_map : Admitted(opts, p)
        /\ result.summary.files_scanned <= Len(log)

\* a scan with an include pattern that matches both files and an exclude
\* pattern that matches one of them has ended with the other file parsed
C24_Witness ==
    /\ pc = "done" /\ outcome = "Ok"
    /\ opts.include = <<G_star_b>>
    /\ opts.exclude = <<G_star_dot_b>>
    /\ Len(log) = 1
    /\ log[1][1] = P_a_slash_b
    /\ DOMAIN result.files_map = {P_a_slash_b}
    /\ result.summary.files_scanned = 1

(***************************************************************************)
(* Properties of ClassifySpec.                                             *)
(***************************************************************************)
\* C9: every definition of the core catalog and every tag of the extension's
\* priority reference carries the priority Priority::from_tag gives its name.
C9_CatalogsAgree ==
    /\ (coreDef # None /\ unwrap(coreDef) # None) =>
          unwrap(unwrap(coreDef)).priority = from_tag(unwrap(unwrap(coreDef)).name)
    /\ zedTable # None =>
          \A p \in Priorities : \A k \in 1..Len(unwrap(zedTable)[p]) :
              from_tag(unwrap(zedTable)[p][k]) = p

\* the spellings of s in which each ASCII letter is in either case
RECURSIVE AsciiCaseVariants(_)
AsciiCaseVariants(s) ==
    IF s = << >> THEN { << >> }
    ELSE { <<c>> \o v : c \in {to_ascii_lowercase(Head(s)), to_ascii_uppercase(Head(s))},
                        v \in AsciiCaseVariants(Tail(s)) }

\* the names the match lists, with their priorities
ListedNames ==
    {S_BUG, S_FIXME, S_ERROR, S_HACK, S_WARN, S_WARNING, S_FIX, S_TODO, S_WIP,
     S_MAYBE, S_NOTE, S_XXX, S_INFO, S_DOCS, S_PERF, S_TEST, S_IDEA}
ListedPriority(name) ==
    CASE name \in {S_BUG, S_FIXME, S_ERROR}              -> "Critical"
      [] name \in {S_HACK, S_WARN, S_WARNING, S_FIX}     -> "High"
      [] name \in {S_TODO, S_WIP, S_MAYBE}               -> "Medium"
      [] name \in {S_NOTE, S_XXX, S_INFO, S_DOCS, S_PERF, S_TEST, S_IDEA} -> "Low"

\* the priority of the listed name that s spells when ASCII letter case is
\* set aside, Medium when it spells none
PriorityOfSpelling(s) ==
    IF \E name \in ListedNames : s \in AsciiCaseVariants(name)
    THEN ListedPriority(CHOOSE name \in ListedNames : s \in AsciiCaseVariants(name))
    ELSE "Medium"

\* s with each small letter outside ASCII whose upper case is made of ASCII
\* letters written in those letters: the long s as s, the sharp s as ss, the
\* fi ligature as fi
RECURSIVE InAsciiLetters(_)
InAsciiLetters(s) ==
    IF s = << >> THEN << >>
    ELSE (CASE Head(s) = "long-s"      -> <<"s">>
            [] Head(s) = "sharp-s"     -> <<"s", "s">>
            [] Head(s) = "fi-ligature" -> <<"f", "i">>
            [] OTHER                   -> <<Head(s)>>) \o InAsciiLetters(Tail(s))

\* C20 as stated: from_tag gives a priority to every tag, the same to every
\* letter-case variant of it: the listed names in any letter case get their
\* listed priority and every other string gets Medium.
C20_FromTagCaseInsensitive_Original ==
    stamped # None =>
        /\ unwrap(stamped) \in Priorities
        /\ \A v \in AsciiCaseVariants(tagIn) : from_tag(v) = unwrap(stamped)
        /\ unwrap(stamped) = PriorityOfSpelling(tagIn)

\* C20: from_tag gives a priority to every tag, the same to every letter-case
\* variant of it: a string whose upper case (str::to_uppercase, which also
\* turns the long s into S, the sharp s into SS and the fi ligature into FI)
\* is a listed name gets that name's priority, and every other string gets
\* Medium.
C20_FromTagCaseInsensitive ==
    stamped # None =>
        /\ unwrap(stamped) \in Priorities
        /\ \A v \in AsciiCaseVariants(tagIn) : from_tag(v) = unwrap(stamped)
        /\ unwrap(stamped) = PriorityOfSpelling(InAsciiLetters(tagIn))

\* "fix" written with the fi ligature has been classified as FIX is: High
C20_Witness ==
    /\ tagIn = S_fi_x
    /\ stamped = Some("High")

(***************************************************************************)
(* Properties of ParseSpec.                                                *)
(***************************************************************************)
\* the comment markers of the default template as literal texts; REM counts
\* with the white-space character that follows it
MarkerTexts ==
    { <<"/", "/">>, <<"#">>, <<"/", "*">>, <<"*">>, <<"<", "!", "-", "-">>,
      <<"-", "-">>, <<";">>, <<"%">>, <<"\"", "\"", "\"">>, <<"'", "'", "'">>,
      <<"R", "E", "M", " ">>, <<"R", "E", "M", "TAB">>, <<":", ":">> }

\* two texts spell the same word when letter case is set aside (the long s
\* counting as an s, the Kelvin sign as a k)
CaseClass(c) ==
    IF c = "long-s" THEN "S"
    ELSE IF c = "kelvin" THEN "K"
    ELSE IF c = "e-acute" THEN "E-acute"
    ELSE to_ascii_uppercase(c)
SameIgnoringCase(a, b) ==
    /\ Len(a) = Len(b)
    /\ \A i \in 1..Len(a) : CaseClass(a[i]) = CaseClass(b[i])

\* the text from position i on begins with w; letter case is set aside when
\* anycase is set
BeginsWith(text, i, w, anycase) ==
    /\ i + Len(w) - 1 <= Len(text)
    /\ IF anycase THEN SameIgnoringCase(SubSeq(text, i, i + Len(w) - 1), w)
       ELSE SubSeq(text, i, i + Len(w) - 1) = w

\* some comment marker stands before a token spelled like a configured tag
\* (in any letter case), with nothing but white space between them
MarkerBeforeTag(text, tags, anycase) ==
    \E j \in 1..Len(text) :
        /\ \E k \in 1..Len(tags) : BeginsWith(text, j, tags[k], TRUE)
        /\ \E i \in 1..(j - 1) :
             \E m \in MarkerTexts :
                 /\ i + Len(m) <= j
                 /\ BeginsWith(text, i, m, anycase)
                 /\ \A x \in (i + Len(m))..(j - 1) : IsWhitespace(text[x])

\* C10 as claimed: a line in which no comment marker of the default template
\* stands before a tag-shaped token makes parse_line return None.
C10_NoMarkerNoMatch_Original ==
    (parseOut # None /\ ~MarkerBeforeTag(line, unwrap(parser).tags, FALSE)) =>
        unwrap(parseOut) = None

\* C10 amended: the same, a marker being recognised in any letter case when
\* the parser is case-insensitive (REM is the one marker with letters).
C10_NoMarkerNoMatch ==
    (parseOut # None /\
     ~MarkerBeforeTag(line, unwrap(parser).tags, ~unwrap(parser).case_sensitive)) =>
        unwrap(parseOut) = None

\* a line holding a configured tag followed by a colon but no marker, parsed
\* to None
C10_Witness ==
    /\ parseOut # None /\ unwrap(parseOut) = None
    /\ unwrap(parser).tags = <<S_TEST>>
    /\ line = <<"x">> \o S_TEST \o <<":">>

\* a comment marker stands before position j, with nothing but white space
\* between them
MarkerBefore(text, j, anycase) ==
    \E i \in 1..(j - 1) :
        \E m \in MarkerTexts :
            /\ i + Len(m) <= j
            /\ BeginsWith(text, i, m, anycase)
            /\ \A x \in (i + Len(m))..(j - 1) : IsWhitespace(text[x])

\* at position j a letter-case variant of the tag t stands after a comment
\* marker and is followed by a colon or white space
CommentedVariantAt(text, j, t) ==
    /\ BeginsWith(text, j, t, TRUE)
    /\ MarkerBefore(text, j, FALSE)
    /\ j + Len(t) <= Len(text)
    /\ (text[j + Len(t)] = ":" \/ IsWhitespace(text[j + Len(t)]))

\* C11: a case-insensitive parser that meets a letter-case variant of a
\* configured tag after a comment marker and before a separator yields an
\* item whose tag is the configured spelling and whose priority is from_tag
\* of that tag.
C11_TagNormalized ==
    (parseOut # None /\ ~unwrap(parser).case_sensitive) =>
        \A k \in 1..Len(unwrap(parser).tags), j \in 1..Len(line) :
            CommentedVariantAt(line, j, unwrap(parser).tags[k]) =>
                /\ unwrap(parseOut) # None
                /\ unwrap(unwrap(parseOut)).tag = unwrap(parser).tags[k]
                /\ unwrap(unwrap(parseOut)).priority = from_tag(unwrap(parser).tags[k])

\* at position j the tag t stands in its configured spelling after a comment
\* marker and is followed by a colon or white space
CommentedExactAt(text, j, t) ==
    /\ BeginsWith(text, j, t, FALSE)
    /\ CommentedVariantAt(text, j, t)

\* the text holds the word w letter for letter
Occurs(text, w) == \E j \in 1..Len(text) : BeginsWith(text, j, w, FALSE)

\* C12: a case-sensitive parser returns None for a line that holds the
\* configured tags only in another letter case, and still yields the tag for
\* a commented occurrence in the configured spelling.
C12_CaseSensitiveExact ==
    (parseOut # None /\ unwrap(parser).case_sensitive) =>
        /\ (\A k \in 1..Len(unwrap(parser).tags) : ~Occurs(line, unwrap(parser).tags[k])) =>
               unwrap(parseOut) = None
        /\ \A k \in 1..Len(unwrap(parser).tags), j \in 1..Len(line) :
               CommentedExactAt(line, j, unwrap(parser).tags[k]) =>
                   /\ unwrap(parseOut) # None
                   /\ unwrap(unwrap(parseOut)).tag = unwrap(parser).tags[k]

\* a case-sensitive parser for TEST has read "// test:" and returned None
C12_Witness ==
    /\ parseOut # None /\ unwrap(parseOut) = None
    /\ unwrap(parser).case_sensitive
    /\ unwrap(parser).tags = <<S_TEST>>
    /\ line = <<"/", "/", " ">> \o S_test \o <<":">>

\* from position q on stands a separator, or a parenthesized author and then
\* a separator
SeparatorFollows(text, q) ==
    \/ (q <= Len(text) /\ (text[q] = ":" \/ IsWhitespace(text[q])))
    \/ /\ q <= Len(text) /\ text[q] = "("
       /\ \E r \in (q + 2)..(Len(text) - 1) :
            /\ text[r] = ")"
            /\ \A y \in (q + 1)..(r - 1) : text[y] # ")"
            /\ (text[r + 1] = ":" \/ IsWhitespace(text[r + 1]))

\* C13: when no occurrence of a configured tag, in any letter case, is
\* followed by a colon or white space (directly or after a parenthesized
\* author), parse_line returns None, even if a comment marker stands before
\* the tag; a commented tag followed by a separator is reported.
C13_SeparatorRequired ==
    parseOut # None =>
        /\ (\A k \in 1..Len(unwrap(parser).tags), j \in 1..Len(line) :
               BeginsWith(line, j, unwrap(parser).tags[k], TRUE) =>
                   ~SeparatorFollows(line, j + Len(unwrap(parser).tags[k]))) =>
               unwrap(parseOut) = None
        /\ (\E k \in 1..Len(unwrap(parser).tags), j \in 1..Len(line) :
               CommentedExactAt(line, j, unwrap(parser).tags[k])) =>
               unwrap(parseOut) # None

\* "// TESTx" read by a parser for TEST: the tag runs on into another
\* letter and nothing is reported
C13_Witness ==
    /\ parseOut # None /\ unwrap(parseOut) = None
    /\ unwrap(parser).tags = <<S_TEST>>
    /\ line = <<"/", "/", " ">> \o S_TEST \o <<"x">>


(***************************************************************************)
(* Properties of RoundTripSpec                                             *)
(***************************************************************************)
\* the fields of an item that the extension's TodoItem has
Carried(it) ==
    [tag |-> it.tag, message |-> it.message, line |-> it.line,
     column |-> it.column, author |-> it.author]

\* C18: the view of a result built by add_file calls, serialized and read
\* back, gives the same files list (path/items pairs in the view's order)
\* and the same summary: exactly with the core types, and with the
\* extension's parse_output in every field its types have, the priority
\* arriving as the name of the variant
C18_RoundTrip ==
    /\ coreBack # None =>
          /\ unwrap(coreBack).files = unwrap(jsonView).files
          /\ unwrap(coreBack).summary = unwrap(jsonView).summary
    /\ zedBack # None =>
          LET files == unwrap(unwrap(jsonView).files)
              z     == unwrap(zedBack)
          IN /\ DOMAIN z = {"ok"}
             /\ z.ok.summary = unwrap(jsonView).summary
             /\ Len(z.ok.files) = Len(files)
             /\ \A i \in 1..Len(files) :
                   /\ z.ok.files[i].path = files[i].path
                   /\ Len(z.ok.files[i].items) = Len(files[i].items)
                   /\ \A n \in 1..Len(files[i].items) :
                         /\ Carried(z.ok.files[i].items[n]) = Carried(files[i].items[n])
                         /\ \E p \in Priorities :
                               /\ files[i].items[n].priority = p
                               /\ z.ok.files[i].items[n].priority = variant_name(p)

\* a view of two files, one with two items that carry their line, has been
\* read back both ways
C18_Witness ==
    /\ coreBack # None
    /\ zedBack # None
    /\ Len(unwrap(unwrap(jsonView).files)) = 2
    /\ \E i \in 1..2 :
          /\ Len(unwrap(unwrap(jsonView).files)[i].items) = 2
          /\ unwrap(unwrap(jsonView).files)[i].items[1].line_content # None
    /\ unwrap(jsonView).summary.total_count > 0

(***************************************************************************)
(* Properties of SummarySpec                                               *)
(***************************************************************************)
\* a finite number, as opposed to the outcome of a division by zero
IsFinite(x) == DOMAIN x = {"num", "den"}

\* C19: for any Summary value, avg_items_per_file returns exactly 0 when
\* files_with_todos = 0, tag_percentage(count) returns exactly 0 for every
\* count when total_count = 0, and neither returns the outcome of a
\* division by zero
C19_ZeroDenominator ==
    /\ avgOut # None =>
          /\ IsFinite(unwrap(avgOut))
          /\ summary.files_with_todos = 0 => unwrap(avgOut) = [num |-> 0, den |-> 1]
    /\ pctOut # None =>
          /\ IsFinite(unwrap(pctOut).percentage)
          /\ summary.total_count = 0 =>
                unwrap(pctOut).percentage = [num |-> 0, den |-> 1]

\* both statistics were asked of a Summary that add_file cannot produce:
\* items counted, yet no file with items
C19_Witness ==
    /\ avgOut # None
    /\ pctOut # None
    /\ summary.files_with_todos = 0
    /\ summary.total_count > 0

(***************************************************************************)
(* Properties of ConstructSpec.                                            *)
(***************************************************************************)
\* the parser was built from an empty tag list
BuiltWithoutTags == construction # None /\ unwrap(construction).tags = << >>

\* C21: a parser built from an empty tag list, whatever the template and the
\* case-sensitivity flag, has no pattern: parse_line returns None for every
\* line and line number and parse_content returns the empty sequence
C21_NoTagsNothingFound ==
    BuiltWithoutTags =>
        /\ unwrap(construction).outcome = "returned"
        /\ unwrap(parser).pattern = None
        /\ parseOut # None => unwrap(parseOut) = None
        /\ \A n \in 1..MaxTemplatePieces : parse_line(unwrap(parser), line, n) = None
        /\ contentOut # None => unwrap(contentOut) = << >>

\* a parser built from no tags and the template that regex rejects has been
\* asked for the items of two commented TEST lines, line by line and at once
C21_Witness ==
    /\ BuiltWithoutTags
    /\ unwrap(construction).custom_regex = Some(T_unclosed)
    /\ line = L_test_x \o L_test_x
    /\ parseOut = Some(None)
    /\ contentOut = Some(<< >>)

\* C14: with_regex called with a non-empty tag list and a custom template
\* that is not a regular expression hands its caller an error, and no
\* parser.
C14_InvalidTemplateIsError ==
    (/\ construction # None
     /\ unwrap(construction).tags # << >>
     /\ unwrap(construction).custom_regex # None
     /\ ~regex_builds(unwrap(unwrap(construction).custom_regex))) =>
        /\ unwrap(construction).outcome = "error"
        /\ parser = None

(***************************************************************************)
(* SortSpec: sort_results applied to a result holding item lists in any    *)
(* order of line and priority.                                             *)
(***************************************************************************)
\* enum SortOrder
SortOrders == {"File", "Line", "Priority"}

\* the derived Ord of Priority: the position of the variant in the enum
priority_ord(p) ==
    CASE p = "Low" -> 0
      [] p = "Medium" -> 1
      [] p = "High" -> 2
      [] p = "Critical" -> 3

\* a key that sorts by priority without std::cmp::Reverse
sort_key_unreversed(item, sort) ==
    IF sort = "Line" THEN item.line ELSE priority_ord(item.priority)

\* the closure handed to sort_by_key: item.line, or Reverse(item.priority)
sort_key(item, sort) ==
    IF sort = "Line" THEN item.line ELSE 0 - priority_ord(item.priority)

\* one step of the stable sort: it goes behind every item whose key is not
\* greater
insert_sorted(sorted, it, sort) ==
    LET k == Cardinality({ i \in 1..Len(sorted) :
                             sort_key(sorted[i], sort) <= sort_key(it, sort) }) IN
    SubSeq(sorted, 1, k) \o <<it>> \o SubSeq(sorted, k + 1, Len(sorted))

\* slice::sort_by_key, a stable sort
RECURSIVE sort_by_key(_, _)
sort_by_key(items, sort) ==
    IF items = << >> THEN << >>
    ELSE insert_sorted(sort_by_key(SubSeq(items, 1, Len(items) - 1), sort),
                       items[Len(items)], sort)

\* sort_results: the map from paths to item lists is the one add_file fills
sort_results(r, sort) ==
    IF sort = "File" THEN r
    ELSE [r EXCEPT !.files_map = [p \in DOMAIN @ |-> sort_by_key(@[p], sort)]]

\* item lists in any order: every item on line 1 or on line MaxItems
SortItems == { create_test_item(t, MSG, l) : t \in ItemTags, l \in {1, MaxItems} }
SortLists == UNION { [1..n -> SortItems] : n \in 0..MaxItems }

SortInit ==
    /\ result = new(ROOT)
    /\ ApiIdle
    /\ ScanIdle
    /\ ClassifyIdle
    /\ ParseIdle
    /\ JsonIdle
    /\ StatIdle
    /\ CmdIdle

\* the scan fills the result, one file at a time
SortAddFile(path, items) ==
    /\ sortOrder = None
    /\ path \notin DOMAIN result.files_map
    /\ result.summary.files_scanned < MaxAdds
    /\ result' = add_file(result, path, items)
    /\ UNCHANGED <<cmdVars, notCmd>>

\* sort_results(&mut result, sort), once the scan has returned
SortResults(sort) ==
    /\ sortOrder = None
    /\ sortBefore' = Some(result)
    /\ sortOrder' = Some(sort)
    /\ result' = sort_results(result, sort)
    /\ UNCHANGED <<configVars, processVars, notCmd>>

SortNext ==
    \/ \E path \in Paths, items \in SortLists : SortAddFile(path, items)
    \/ \E sort \in SortOrders : SortResults(sort)

SortSpec == SortInit /\ [][SortNext]_vars

(***************************************************************************)
(* Properties of SortSpec.                                                 *)
(***************************************************************************)
\* the order the claim names: Critical first, Low last
PriorityPlace(p) ==
    CHOOSE i \in 1..4 : <<"Critical", "High", "Medium", "Low">>[i] = p

\* what the sort compares of an item
KeyOf(item, sort) == IF sort = "Line" THEN item.line ELSE item.priority

\* out holds the items of in, and items of equal key stand as they stood
StablePermutation(in, out, sort) ==
    /\ Len(in) = Len(out)
    /\ \E f \in [1..Len(in) -> 1..Len(in)] :
          /\ \A i \in 1..Len(in) : out[i] = in[f[i]]
          /\ \A i \in 1..Len(in), j \in 1..Len(in) : i # j => f[i] # f[j]
          /\ \A i \in 1..Len(in), j \in 1..Len(in) :
                (i < j /\ KeyOf(out[i], sort) = KeyOf(out[j], sort)) => f[i] < f[j]

\* C27: sort_results keeps the files, the summary and every file's items;
\* by Priority each list ends with Critical first and Low last, by Line with
\* rising line numbers, items of equal key in their previous order; by File
\* nothing changes.
C27_SortWithinFiles ==
    sortOrder # None =>
        /\ DOMAIN result.files_map = DOMAIN unwrap(sortBefore).files_map
        /\ result.summary = unwrap(sortBefore).summary
        /\ result.files = unwrap(sortBefore).files
        /\ result.root = unwrap(sortBefore).root
        /\ unwrap(sortOrder) = "File" => result = unwrap(sortBefore)
        /\ \A p \in DOMAIN result.files_map :
              /\ StablePermutation(unwrap(sortBefore).files_map[p],
                                   result.files_map[p], unwrap(sortOrder))
              /\ \A i \in 1..Len(result.files_map[p]), j \in 1..Len(result.files_map[p]) :
                    i < j =>
                       /\ unwrap(sortOrder) = "Priority" =>
                             PriorityPlace(result.files_map[p][i].priority)
                                 <= PriorityPlace(result.files_map[p][j].priority)
                       /\ unwrap(sortOrder) = "Line" =>
                             result.files_map[p][i].line <= result.files_map[p][j].line

\* a result of two files has been sorted by priority: one list was turned
\* round, the other holds two items of one priority with the later line first
C27_Witness ==
    /\ sortOrder = Some("Priority")
    /\ DOMAIN result.files_map = Paths
    /\ result.files_map[P_a_dot_b] # unwrap(sortBefore).files_map[P_a_dot_b]
    /\ Len(result.files_map[P_a_slash_b]) = 2
    /\ result.files_map[P_a_slash_b][1].priority = result.files_map[P_a_slash_b][2].priority
    /\ result.files_map[P_a_slash_b][1].line > result.files_map[P_a_slash_b][2].line

(***************************************************************************)
(* ConfigSpec: the tags and init commands over the configuration files of  *)
(* the current directory.  Every write the commands ask for succeeds, and  *)
(* the global configuration directory holds no file.                       *)
(***************************************************************************)
\* tags::default_tag_names()
default_tags == [i \in 1..Len(CoreDefaultTags) |-> CoreDefaultTags[i].name]

\* Config::new()
Config_new ==
    [tags |-> default_tags, include |-> << >>, exclude |-> << >>, json |-> FALSE,
     flat |-> FALSE, no_color |-> FALSE, custom_pattern |-> None,
     case_sensitive |-> FALSE]

\* the files Config::load and save_config look for in a directory, in order
local_configs == <<".todorc", ".todorc.json", ".todorc.yaml", ".todorc.yml">>
\* a configuration file of the parent directory
PARENT_CONFIG == "../.todorc"
\* a file named with --config
CUSTOM_CONFIG == "custom.json"
ConfigNames == { local_configs[i] : i \in DOMAIN local_configs }
                   \cup {PARENT_CONFIG, CUSTOM_CONFIG}

\* Path::extension, "" when there is none
extension(name) ==
    CASE name = ".todorc.json" -> "json"
      [] name = ".todorc.yaml" -> "yaml"
      [] name = ".todorc.yml" -> "yml"
      [] name = CUSTOM_CONFIG -> "json"
      [] OTHER -> ""

\* a file's content: the syntax it is written in and the Config it spells
Written(syntax, config) == [syntax |-> syntax, config |-> config]
\* content that is neither JSON nor YAML
GARBAGE == [syntax |-> "none", config |-> << >>]

\* Config::load_from_file: YAML files are read as YAML, which JSON text is
\* too; the others as JSON and then as YAML
load_from_file(files, name) ==
    IF files[name] = None THEN [err |-> "Failed to read config file"]
    ELSE IF unwrap(files[name]).syntax \in {"json", "yaml"}
    THEN [ok |-> unwrap(files[name]).config]
    ELSE [err |-> "Failed to parse config"]

\* the first of local_configs that exists
first_existing(files) ==
    IF \A i \in DOMAIN local_configs : files[local_configs[i]] = None THEN None
    ELSE Some(local_configs[CHOOSE i \in DOMAIN local_configs :
                 /\ files[local_configs[i]] # None
                 /\ \A j \in 1..(i - 1) : files[local_configs[j]] = None])

\* Config::load(start_path): a local file decides; a failure to load from
\* the parent directory is passed over
Config_load(files) ==
    IF first_existing(files) # None
    THEN (IF "ok" \in DOMAIN load_from_file(files, unwrap(first_existing(files)))
          THEN [ok |-> Some(load_from_file(files, unwrap(first_existing(files))).ok)]
          ELSE load_from_file(files, unwrap(first_existing(files))))
    ELSE IF "ok" \in DOMAIN load_from_file(files, PARENT_CONFIG)
    THEN [ok |-> Some(load_from_file(files, PARENT_CONFIG).ok)]
    ELSE [ok |-> None]

\* load_config(path, config_path)
load_config(files, config_path) ==
    IF config_path # None THEN load_from_file(files, unwrap(config_path))
    ELSE IF "err" \in DOMAIN Config_load(files) THEN Config_load(files)
    ELSE IF Config_load(files).ok # None THEN [ok |-> unwrap(Config_load(files).ok)]
    ELSE [ok |-> Config_new]

\* Config::save: YAML for .yaml and .yml, pretty JSON otherwise
save(files, config, name) ==
    [files EXCEPT ![name] =
        Some(Written(IF extension(name) \in {"yaml", "yml"} THEN "yaml" ELSE "json",
                     config))]

\* save_config: the first existing local file, or a new .todorc.json
save_config(files, config) ==
    IF first_existing(files) # None
    THEN save(files, config, unwrap(first_existing(files)))
    ELSE save(files, config, ".todorc.json")

\* a test for the tag that compares the spellings as they are
tag_configured_as_written(tags, new_tag) ==
    \E i \in 1..Len(tags) : tags[i] = new_tag

\* config.tags.iter().any(|t| t.eq_ignore_ascii_case(new_tag))
tag_configured(tags, new_tag) ==
    \E i \in 1..Len(tags) : eq_ignore_ascii_case(tags[i], new_tag)

\* config.tags.retain(|t| !t.eq_ignore_ascii_case(remove_tag))
retain(tags, remove_tag) ==
    SelectSeq(tags, LAMBDA t : ~eq_ignore_ascii_case(t, remove_tag))

\* what a command leaves behind: the files, whether it returned Ok, what it
\* printed, and the tags it had loaded
Ran(files, ok, out, loaded) ==
    [files |-> files, ok |-> ok, out |-> out, loaded |-> loaded]

\* cmd_tags once the configuration is loaded
tags_loaded(files, args, config) ==
    IF args.add # None
    THEN (IF ~tag_configured(config.tags, unwrap(args.add))
          THEN Ran(save_config(files,
                       [config EXCEPT !.tags = Append(@, to_uppercase(unwrap(args.add)))]),
                   TRUE, "Added tag", config.tags)
          ELSE Ran(files, TRUE, "Tag already exists", config.tags))
    ELSE IF args.remove # None
    THEN (IF Len(retain(config.tags, unwrap(args.remove))) < Len(config.tags)
          THEN Ran(save_config(files,
                       [config EXCEPT !.tags = retain(@, unwrap(args.remove))]),
                   TRUE, "Removed tag", config.tags)
          ELSE Ran(files, TRUE, "Tag not found", config.tags))
    ELSE IF args.reset
    THEN Ran(save_config(files, [config EXCEPT !.tags = default_tags]),
             TRUE, "Tags reset to defaults", config.tags)
    ELSE Ran(files, TRUE, "Configured tags", config.tags)

\* cmd_tags(args, global)
cmd_tags(files, args, config_path) ==
    IF "err" \in DOMAIN load_config(files, config_path)
    THEN Ran(files, FALSE, load_config(files, config_path).err, << >>)
    ELSE tags_loaded(files, args, load_config(files, config_path).ok)

\* an init that writes whatever is there
init_refused_never(exists, force) == FALSE

\* path.exists() && !args.force
init_refused(exists, force) == exists /\ ~force

\* cmd_init(args)
cmd_init(files, format, force) ==
    IF init_refused(files[IF format = "Json" THEN ".todorc.json" ELSE ".todorc.yaml"] # None,
                    force)
    THEN Ran(files, FALSE, "already exists", << >>)
    ELSE Ran(save(files, Config_new,
                  IF format = "Json" THEN ".todorc.json" ELSE ".todorc.yaml"),
             TRUE, "Created configuration file", << >>)

\* commands run in one history
MaxCmds == 3

\* inputs: tags given to --add and --remove, contents found in files
S_new == <<"n", "e", "w">>
TagArgs == {S_todo, S_FIXME, S_new}
TagsArgsSet ==
    { [add |-> Some(t), remove |-> None, reset |-> FALSE] : t \in TagArgs }
    \cup { [add |-> None, remove |-> Some(t), reset |-> FALSE] : t \in TagArgs }
    \cup { [add |-> Some(S_new), remove |-> Some(S_todo), reset |-> TRUE],
           [add |-> None, remove |-> Some(S_todo), reset |-> TRUE],
           [add |-> None, remove |-> None, reset |-> TRUE],
           [add |-> None, remove |-> None, reset |-> FALSE] }
\* command lines naming a file with --config
CustomArgsSet ==
    { [add |-> Some(S_new), remove |-> None, reset |-> FALSE],
      [add |-> None, remove |-> Some(S_FIXME), reset |-> FALSE] }
InitialContents ==
    { Written("json", [Config_new EXCEPT !.tags = <<S_TODO>>]),
      Written("yaml", [Config_new EXCEPT !.tags = <<S_todo, S_FIXME>>]),
      GARBAGE }

NoFiles == [n \in ConfigNames |-> None]

\* at most one local file; the parent directory and the --config path hold
\* a file each, or neither does
ConfigInit ==
    /\ result = new(ROOT)
    /\ ApiIdle
    /\ ScanIdle
    /\ ClassifyIdle
    /\ ParseIdle
    /\ JsonIdle
    /\ StatIdle
    /\ sortBefore = None
    /\ sortOrder = None
    /\ status = None
    /\ stdout = << >>
    /\ stderr = << >>
    /\ processed = None
    /\ lastCmd = None
    /\ \E local \in {NoFiles}
                      \cup { [NoFiles EXCEPT ![local_configs[i]] = Some(c)] :
                               i \in DOMAIN local_configs, c \in InitialContents },
          others \in BOOLEAN :
            configFiles =
               IF others
               THEN [local EXCEPT
                       ![PARENT_CONFIG] =
                           Some(Written("json", [Config_new EXCEPT !.tags = <<S_todo>>])),
                       ![CUSTOM_CONFIG] =
                           Some(Written("json", [Config_new EXCEPT !.tags = <<S_FIXME>>]))]
               ELSE local

\* the command has run: its effect on the files, and a record of the run
Run(cmd, args, config_path, force, ran) ==
    /\ IF lastCmd = None THEN TRUE ELSE unwrap(lastCmd).n < MaxCmds
    /\ configFiles' = ran.files
    /\ lastCmd' = Some([n |-> IF lastCmd = None THEN 1 ELSE unwrap(lastCmd).n + 1,
                        cmd |-> cmd, args |-> args, config |-> config_path,
                        force |-> force, ok |-> ran.ok, out |-> ran.out,
                        loaded |-> ran.loaded, before |-> configFiles])
    /\ UNCHANGED <<result, sortVars, processVars, notCmd>>

\* todo-tree tags ...
CmdTags(args, config_path) ==
    Run("tags", args, config_path, FALSE, cmd_tags(configFiles, args, config_path))

\* todo-tree init --format ... [--force]
CmdInit(format, force) ==
    Run("init", format, None, force, cmd_init(configFiles, format, force))

ConfigNext ==
    \/ \E args \in TagsArgsSet : CmdTags(args, None)
    \/ \E args \in CustomArgsSet : CmdTags(args, Some(CUSTOM_CONFIG))
    \/ \E format \in {"Json", "Yaml"}, force \in BOOLEAN : CmdInit(format, force)

ConfigSpec == ConfigInit /\ [][ConfigNext]_vars

(***************************************************************************)
(* Properties of ConfigSpec.                                               *)
(***************************************************************************)
\* the file exists and holds a configuration
Readable(files, n) == files[n] # None /\ unwrap(files[n]).syntax # "none"
\* the tag list a readable file holds
TagsOf(files, n) == unwrap(files[n]).config.tags
\* no two tags of the list are the same up to the case of ASCII letters
NoDuplicateTags(tags) ==
    \A i \in 1..Len(tags), j \in 1..Len(tags) :
        i # j => ~SameIgnoringAsciiCase(tags[i], tags[j])
\* the list holds the tag in some letter case
Present(tags, t) == \E i \in 1..Len(tags) : SameIgnoringAsciiCase(tags[i], t)
\* the tag with its ASCII letters in upper case
AsciiUpper(t) == [i \in 1..Len(t) |-> to_ascii_uppercase(t[i])]
\* a tags command has returned Ok
TagsRan == IF lastCmd = None THEN FALSE
           ELSE unwrap(lastCmd).cmd = "tags" /\ unwrap(lastCmd).ok
\* an init command has run
InitRan == IF lastCmd = None THEN FALSE ELSE unwrap(lastCmd).cmd = "init"
\* the file init writes for the format it was given
InitTarget == IF unwrap(lastCmd).args = "Json" THEN ".todorc.json" ELSE ".todorc.yaml"

\* C28: with ASCII tag names and files whose lists hold no tag twice in any
\* letter case, tags --add and --remove keep every list that way; adding a
\* tag the loaded list holds in some letter case writes no file, a new tag
\* is saved at the end of the loaded list in upper case, and removing a tag
\* the loaded list does not hold writes no file.
C28_TagsStayDistinct ==
    /\ \A n \in ConfigNames :
          Readable(configFiles, n) => NoDuplicateTags(TagsOf(configFiles, n))
    /\ (TagsRan /\ unwrap(lastCmd).args.add # None) =>
          IF Present(unwrap(lastCmd).loaded, unwrap(unwrap(lastCmd).args.add))
          THEN configFiles = unwrap(lastCmd).before
          ELSE \E n \in ConfigNames :
                  /\ Readable(configFiles, n)
                  /\ TagsOf(configFiles, n)
                        = Append(unwrap(lastCmd).loaded,
                                 AsciiUpper(unwrap(unwrap(lastCmd).args.add)))
                  /\ \A m \in ConfigNames \ {n} :
                        configFiles[m] = unwrap(lastCmd).before[m]
    /\ (/\ TagsRan
        /\ unwrap(lastCmd).args.add = None
        /\ unwrap(lastCmd).args.remove # None) =>
          (~Present(unwrap(lastCmd).loaded, unwrap(unwrap(lastCmd).args.remove))
              => configFiles = unwrap(lastCmd).before)

\* after a command that changed nothing because the tag was there, --add new
\* has put NEW behind the two tags of the YAML file
C28_Witness ==
    /\ TagsRan
    /\ unwrap(lastCmd).n = 2
    /\ unwrap(lastCmd).args.add = Some(S_new)
    /\ unwrap(lastCmd).loaded = <<S_todo, S_FIXME>>
    /\ Readable(configFiles, ".todorc.yaml")
    /\ TagsOf(configFiles, ".todorc.yaml") = <<S_todo, S_FIXME, <<"N", "E", "W">>>>

from_utf8_lossy(bytes) ==
    [i \in 1..Len(bytes) |-> IF bytes[i] = "0xFF" THEN "U+FFFD" ELSE bytes[i]]

\* bytes spelling the JSON document j, and bytes spelling no JSON document
JsonBytes(j) == [doc |-> Some(j), bytes |-> << >>]
TextBytes(t) == [doc |-> None, bytes |-> t]

\* a process_command_output that looks at the output first
process_command_output_parsing_first(exit, out, err) ==
    IF out.doc # None /\ "ok" \in DOMAIN parse_output(unwrap(out.doc))
    THEN parse_output(unwrap(out.doc))
    ELSE IF exit # Some(0)
    THEN [err |-> "ExecutionFailed", msg |-> from_utf8_lossy(err)]
    ELSE [err |-> "ParseFailed"]

\* process_command_output(status, stdout, stderr)
process_command_output(exit, out, err) ==
    IF exit # Some(0)
    THEN [err |-> "ExecutionFailed", msg |-> from_utf8_lossy(err)]
    ELSE IF out.doc # None THEN parse_output(unwrap(out.doc))
    ELSE [err |-> "ParseFailed"]

\* inputs: no exit code (killed by a signal), success, failure
Statuses == {None, Some(0), Some(1)}
\* the JSON output of a one-file scan, the same result printed without
\* to_json_format (no files key), text that is no JSON, and nothing
Stdouts ==
    { JsonBytes(serialize(to_json_format(add_file(new(ROOT), p, items)))) :
         p \in Paths, items \in ItemLists }
    \cup { JsonBytes(serialize(add_file(new(ROOT), P_a_dot_b, << >>))),
           TextBytes(<<"o", "o", "p", "s">>), TextBytes(<< >>) }
Stderrs == { << >>, <<"e">>, <<"e", "0xFF">> }

ProcessInit ==
    /\ result = new(ROOT)
    /\ ApiIdle
    /\ ScanIdle
    /\ ClassifyIdle
    /\ ParseIdle
    /\ JsonIdle
    /\ StatIdle
    /\ sortBefore = None
    /\ sortOrder = None
    /\ configFiles = << >>
    /\ lastCmd = None
    /\ status \in Statuses
    /\ stdout \in Stdouts
    /\ stderr \in Stderrs
    /\ processed = None

\* process_command_output(output.status, &output.stdout, &output.stderr)
ProcessCommandOutput ==
    /\ processed = None
    /\ processed' = Some(process_command_output(status, stdout, stderr))
    /\ UNCHANGED <<status, stdout, stderr>>
    /\ UNCHANGED <<result, sortVars, configVars, notCmd>>

ProcessNext == ProcessCommandOutput

ProcessSpec == ProcessInit /\ [][ProcessNext]_vars

(***************************************************************************)
(* Properties of ProcessSpec.                                              *)
(***************************************************************************)
\* the output is the text of a JSON document with a files array
HoldsResult(out) ==
    IF out.doc = None THEN FALSE ELSE "files" \in DOMAIN unwrap(out.doc)

\* C30: for a status other than Some(0) the outcome is ExecutionFailed with
\* the text of stderr, whatever stdout holds; for Some(0) it is what
\* parse_output makes of stdout, a result or ParseFailed, whatever stderr
\* holds.
C30_StatusBeforeOutput ==
    processed # None =>
        IF status # Some(0)
        THEN /\ unwrap(processed)
                   = [err |-> "ExecutionFailed", msg |-> from_utf8_lossy(stderr)]
             /\ \A o \in Stdouts :
                   process_command_output(status, o, stderr) = unwrap(processed)
        ELSE /\ \A e \in Stderrs :
                   process_command_output(status, stdout, e) = unwrap(processed)
             /\ IF HoldsResult(stdout)
                THEN /\ DOMAIN unwrap(processed) = {"ok"}
                     /\ unwrap(processed) = parse_output(unwrap(stdout.doc))
                     /\ unwrap(processed).ok.summary = unwrap(stdout.doc)["summary"]
                ELSE unwrap(processed) = [err |-> "ParseFailed"]

\* a process without exit code left the JSON of a file with items on stdout
\* and text with a bad byte on stderr
C30_Witness ==
    /\ processed = Some([err |-> "ExecutionFailed", msg |-> <<"e", "U+FFFD">>])
    /\ status = None
    /\ HoldsResult(stdout)
    /\ unwrap(stdout.doc)["summary"].total_count = MaxItems

====
